---- MODULE Spec2Model ----
(***************************************************************************)
(* A model of the localhost HTTP/1.1 server: the incremental request       *)
(* parser (http_parser.rs), the response builder (http_response.rs), the   *)
(* router and dispatcher and the event loop (server.rs).                   *)
(*                                                                         *)
(* Bytes are one-character strings; a byte string is a sequence of them.   *)
(* Option<T> is a sequence of length 0 (None) or 1 (Some(x)).              *)
(***************************************************************************)
EXTENDS Integers, Sequences, FiniteSets, TLC

VARIABLES
    mode,       \* which harness drives the model: "parse", "route", "server" or "timed"
    input,      \* parse harness: the whole byte stream of one request
    fed,        \* parse harness: how many bytes of input were given to parse so far
    parser,     \* parse harness: the HttpParser fed piece by piece
    request,    \* parse harness: the HttpRequest it builds
    perr,       \* parse harness: the Err of the last parse call ("" when Ok)
    calls,      \* parse harness: the number of parse calls so far, counted up to 2
    ruri,       \* route harness: the request URI
    rroutes,    \* route harness: config.routes
    rresult,    \* route harness: what find_route returned, once it was called
    aservers,   \* accept harness: config.servers; listener i is bound for server i
    alistener,  \* accept harness: the listener with a connection to accept
    aclient,    \* accept harness: the Client accept_connection built from it
    cgienv,     \* CGI harness: what CgiHandler::execute returns for the request
    cgiwire,    \* CGI harness: the serialized response to the request
    dcase,      \* dispatch harness: the request, the route, the disk and the environment
    dout,       \* dispatch harness: what process_request left behind, once it was called
    reactor,    \* reactor harness: the registrations of both backends and the last call
    runloop,    \* loop harness: the table of run, its iterations and what it returned
    pipes,      \* pipe harness: the server, the child and the pipes between them
    cgispawn,   \* spawn harness: the route, the request and the command that was spawned
    clients,    \* Server.clients: descriptor -> Client
    idle,       \* descriptor -> seconds since the client's last_activity
    ops,        \* descriptor -> the operations of the dispatch that queued its response
    served,     \* descriptor -> the number of responses written in full on the connection
    answered,   \* descriptor -> the status of the last response written in full (None before it)
    io,         \* the socket call of the event handled last and its result
    interest,   \* the epoll registrations: descriptor -> "IN" or "OUT"
    sock,       \* descriptor -> the connection: bytes arrived, segments to come, the peer
    pending,    \* listener -> connections completed and not yet accepted
    fs,         \* the filesystem
    sessions,   \* SessionManager.sessions: the ids
    batch,      \* the events of the current epoll.wait batch still to handle
    naccepts,   \* connections made so far
    nrequests   \* requests started so far

pvars == <<input, fed, parser, request, perr, calls>>
rvars == <<ruri, rroutes, rresult>>
hvars == <<aservers, alistener, aclient, cgienv, cgiwire, dcase, dout, reactor,
           runloop, pipes, cgispawn>>
svars == <<clients, idle, ops, served, answered, io, interest, sock, pending, fs, sessions,
           batch, naccepts, nrequests>>

(***************************************************************************)
(* Bounds of the model                                                     *)
(***************************************************************************)
MaxBodyLen == 2
MaxUriLen == 3
MaxRoutes == 2
MaxClients == 1
MaxTimedClients == 2
MaxAccepts == 2
MaxRequests == 2
MaxTimedRequests == 1
MaxWrite == 8
MaxCgiSecs == 2
MaxServers == 3

(***************************************************************************)
(* Byte strings                                                            *)
(***************************************************************************)
CR == "\r"
LF == "\n"
CRLF == <<CR, LF>>
SP == <<" ">>

None == <<>>
Some(x) == <<x>>

Min(a, b) == IF a < b THEN a ELSE b

LowerAlpha == <<"a","b","c","d","e","f","g","h","i","j","k","l","m",
                "n","o","p","q","r","s","t","u","v","w","x","y","z">>
UpperAlpha == <<"A","B","C","D","E","F","G","H","I","J","K","L","M",
                "N","O","P","Q","R","S","T","U","V","W","X","Y","Z">>

IndexIn(c, alpha) ==
    IF \E i \in 1..Len(alpha) : alpha[i] = c
    THEN CHOOSE i \in 1..Len(alpha) : alpha[i] = c
    ELSE 0

UpperOf == [c \in {LowerAlpha[i] : i \in 1..Len(LowerAlpha)} |->
               UpperAlpha[IndexIn(c, LowerAlpha)]]
LowerOf == [c \in {UpperAlpha[i] : i \in 1..Len(UpperAlpha)} |->
               LowerAlpha[IndexIn(c, UpperAlpha)]]

\* str::to_uppercase / str::to_lowercase on ASCII text
to_uppercase(s) ==
    [i \in 1..Len(s) |-> IF s[i] \in DOMAIN UpperOf THEN UpperOf[s[i]] ELSE s[i]]

to_lowercase(s) ==
    [i \in 1..Len(s) |-> IF s[i] \in DOMAIN LowerOf THEN LowerOf[s[i]] ELSE s[i]]

\* char::is_whitespace on ASCII
IsWhitespace(c) == c \in {" ", "\t", "\n", "\r", "\f"}

\* s[from..to) in Rust's 0-based half-open slicing
Slice(s, from, to) == SubSeq(s, from + 1, to)

\* str::trim
TrimStart(s) ==
    LET ks == {k \in 1..Len(s) : ~IsWhitespace(s[k])}
    IN  IF ks = {} THEN <<>>
        ELSE SubSeq(s, CHOOSE k \in ks : \A j \in ks : k <= j, Len(s))

TrimEnd(s) ==
    LET ks == {k \in 1..Len(s) : ~IsWhitespace(s[k])}
    IN  IF ks = {} THEN <<>>
        ELSE SubSeq(s, 1, CHOOSE k \in ks : \A j \in ks : k >= j)

trim(s) == TrimEnd(TrimStart(s))

\* str::find(pat): 0-based offset of the first occurrence of pat, or None
RECURSIVE FindFrom(_, _, _)
FindFrom(s, pat, k) ==
    IF k + Len(pat) > Len(s) THEN None
    ELSE IF \A j \in 1..Len(pat) : s[k + j] = pat[j] THEN Some(k)
    ELSE FindFrom(s, pat, k + 1)

find(s, pat) == FindFrom(s, pat, 0)

contains(s, pat) == find(s, pat) # None

starts_with(s, pat) == Len(pat) <= Len(s) /\ SubSeq(s, 1, Len(pat)) = pat

ends_with(s, pat) ==
    Len(pat) <= Len(s) /\ SubSeq(s, Len(s) - Len(pat) + 1, Len(s)) = pat

\* str::split_whitespace().collect()
RECURSIVE split_whitespace(_)
split_whitespace(s) ==
    LET t == TrimStart(s)
    IN  IF t = <<>> THEN <<>>
        ELSE LET ws == {k \in 1..Len(t) : IsWhitespace(t[k])}
                 e  == IF ws = {} THEN Len(t) + 1
                       ELSE CHOOSE k \in ws : \A j \in ws : k <= j
             IN  <<SubSeq(t, 1, e - 1)>> \o split_whitespace(SubSeq(t, e, Len(t)))

\* s.split(sep).next(): the text before the first sep
SplitFirst(s, sep) ==
    LET f == find(s, <<sep>>)
    IN  IF f = None THEN s ELSE Slice(s, 0, f[1])

\* s.split(sep).nth(1): the text between the first and the second sep, or None
SplitSecond(s, sep) ==
    LET f == find(s, <<sep>>)
    IN  IF f = None THEN None
        ELSE Some(SplitFirst(Slice(s, f[1] + 1, Len(s)), sep))

DecDigits == <<"0","1","2","3","4","5","6","7","8","9">>
HexLower == <<"0","1","2","3","4","5","6","7","8","9","a","b","c","d","e","f">>

HexVal == [c \in {HexLower[i] : i \in 1..Len(HexLower)} |-> IndexIn(c, HexLower) - 1]

to_ascii_lowercase(c) == IF c \in DOMAIN LowerOf THEN LowerOf[c] ELSE c

\* char::to_digit(radix), -1 for None
HexDigit(l, radix) == IF l \in DOMAIN HexVal /\ HexVal[l] < radix THEN HexVal[l] ELSE -1

DigitVal(c, radix) == HexDigit(to_ascii_lowercase(c), radix)

RECURSIVE DigitsVal(_, _)
DigitsVal(s, radix) ==
    IF s = <<>> THEN 0
    ELSE DigitsVal(SubSeq(s, 1, Len(s) - 1), radix) * radix + DigitVal(s[Len(s)], radix)

\* One or more digits of the radix
digits_value(d, radix) ==
    IF d = <<>> \/ \E i \in 1..Len(d) : DigitVal(d[i], radix) < 0
    THEN None
    ELSE Some(DigitsVal(d, radix))

\* usize::from_str_radix(s, radix): an optional '+', then one or more digits
from_str_radix(s, radix) ==
    digits_value(IF s # <<>> /\ s[1] = "+" THEN Tail(s) ELSE s, radix)

\* usize::to_string
RECURSIVE to_string(_)
to_string(n) ==
    IF n < 10 THEN <<DecDigits[n + 1]>>
    ELSE to_string(n \div 10) \o <<DecDigits[(n % 10) + 1]>>

\* HashMap::insert / get on a map from byte strings to values
MapInsert(m, k, v) == [x \in DOMAIN m \cup {k} |-> IF x = k THEN v ELSE m[x]]
MapGet(m, k) == IF k \in DOMAIN m THEN Some(m[k]) ELSE None
EmptyMap == [x \in {} |-> <<>>]

(***************************************************************************)
(* http_parser.rs                                                          *)
(***************************************************************************)
S_content_length == <<"c","o","n","t","e","n","t","-","l","e","n","g","t","h">>
S_transfer_encoding ==
    <<"t","r","a","n","s","f","e","r","-","e","n","c","o","d","i","n","g">>
S_chunked == <<"c","h","u","n","k","e","d">>

HttpRequest_new ==
    [method |-> <<>>, uri |-> <<>>, version |-> <<>>, headers |-> EmptyMap,
     body |-> <<>>, complete |-> FALSE]

HttpParser_new ==
    [state |-> "RequestLine", buffer |-> <<>>, headers_complete |-> FALSE,
     content_length |-> None, is_chunked |-> FALSE, chunk_size |-> 0,
     chunk_state |-> "Size"]

\* self.buffer.windows(2).position(|w| w == b"\r\n")
find_crlf(buffer) == find(buffer, CRLF)

\* self.buffer.drain(..n)
drain(buffer, n) == SubSeq(buffer, n + 1, Len(buffer))

\* The result of a parse step: err is "" for Ok; adv is the Ok(bool).
Ret(p, r, adv, err) == [p |-> p, r |-> r, adv |-> adv, err |-> err]

\* The Some(pos) arm of parse_request_line once the line is split
\* Mutant: three tokens or more are accepted and the method is stored as given.
request_line_parts_lax(p, r, pos, parts) ==
    IF Len(parts) < 3 THEN Ret(p, r, FALSE, "Invalid request line")
    ELSE Ret([p EXCEPT !.buffer = drain(p.buffer, pos[1] + 2)],
             [r EXCEPT !.method = parts[1],
                       !.uri = parts[2],
                       !.version = parts[3]],
             TRUE, "")

request_line_parts(p, r, pos, parts) ==
    IF Len(parts) # 3 THEN Ret(p, r, FALSE, "Invalid request line")
    ELSE Ret([p EXCEPT !.buffer = drain(p.buffer, pos[1] + 2)],
             [r EXCEPT !.method = to_uppercase(parts[1]),
                       !.uri = parts[2],
                       !.version = parts[3]],
             TRUE, "")

\* parse_request_line after find_crlf
request_line_at(p, r, pos) ==
    IF pos = None THEN Ret(p, r, FALSE, "")
    ELSE request_line_parts(p, r, pos, split_whitespace(Slice(p.buffer, 0, pos[1])))

parse_request_line(p, r) == request_line_at(p, r, find_crlf(p.buffer))

\* request.headers.insert(key, value) for a line with a colon at colon_pos
header_insert(r, line, colon_pos) ==
    IF colon_pos = None THEN r
    ELSE [r EXCEPT !.headers =
            MapInsert(r.headers,
                      to_lowercase(trim(Slice(line, 0, colon_pos[1]))),
                      trim(Slice(line, colon_pos[1] + 1, Len(line))))]

header_line(r, line) == header_insert(r, line, find(line, <<":">>))

RECURSIVE parse_headers_at(_, _, _)
parse_headers_at(p, r, pos) ==
    IF pos = None THEN Ret(p, r, FALSE, "")
    ELSE IF pos[1] = 0
    THEN Ret([p EXCEPT !.buffer = drain(p.buffer, 2)], r, TRUE, "")
    ELSE parse_headers_at([p EXCEPT !.buffer = drain(p.buffer, pos[1] + 2)],
                          header_line(r, Slice(p.buffer, 0, pos[1])),
                          find_crlf(drain(p.buffer, pos[1] + 2)))

parse_headers(p, r) == parse_headers_at(p, r, find_crlf(p.buffer))

\* Mutant: everything buffered is taken as the body.
parse_body_all(p, r) ==
    IF p.content_length # None /\ Len(p.buffer) >= p.content_length[1]
    THEN Ret([p EXCEPT !.buffer = <<>>], [r EXCEPT !.body = r.body \o p.buffer], TRUE, "")
    ELSE Ret(p, r, FALSE, "")

parse_body(p, r) ==
    IF p.content_length # None /\ Len(p.buffer) >= p.content_length[1]
    THEN Ret([p EXCEPT !.buffer = drain(p.buffer, p.content_length[1])],
             [r EXCEPT !.body = r.body \o Slice(p.buffer, 0, p.content_length[1])],
             TRUE, "")
    ELSE Ret(p, r, FALSE, "")

\* Mutant: the whole size line, chunk extension included, is read as the size.
chunk_size_of_line(size_str) == from_str_radix(trim(size_str), 16)

\* The chunk size of a size line: the text before ';', trimmed, in base 16
chunk_size_of(size_str) == from_str_radix(trim(SplitFirst(size_str, ";")), 16)

\* One step of the loop of parse_chunked_body: the parser and the request
\* after it, and whether the loop goes on (next) or returns (adv, err).
chunk_size_step(p, r, pos, size) ==
    IF size = None THEN [p |-> p, r |-> r, next |-> FALSE, adv |-> FALSE,
                         err |-> "Invalid chunk size"]
    ELSE [p |-> [p EXCEPT !.chunk_size = size[1],
                          !.buffer = drain(p.buffer, pos[1] + 2),
                          !.chunk_state = IF size[1] = 0 THEN "Size" ELSE "Data"],
          r |-> r, next |-> size[1] # 0, adv |-> size[1] = 0, err |-> ""]

chunk_size_at(p, r, pos) ==
    IF pos = None THEN [p |-> p, r |-> r, next |-> FALSE, adv |-> FALSE, err |-> ""]
    ELSE chunk_size_step(p, r, pos, chunk_size_of(Slice(p.buffer, 0, pos[1])))

chunk_step(p, r) ==
    CASE p.chunk_state = "Size" -> chunk_size_at(p, r, find_crlf(p.buffer))
      [] p.chunk_state = "Data" ->
            IF Len(p.buffer) >= p.chunk_size
            THEN [p |-> [p EXCEPT !.buffer = drain(p.buffer, p.chunk_size),
                                  !.chunk_state = "TrailingCRLF"],
                  r |-> [r EXCEPT !.body = r.body \o Slice(p.buffer, 0, p.chunk_size)],
                  next |-> TRUE, adv |-> FALSE, err |-> ""]
            ELSE [p |-> p, r |-> r, next |-> FALSE, adv |-> FALSE, err |-> ""]
      [] p.chunk_state = "TrailingCRLF" ->
            IF Len(p.buffer) >= 2
            THEN [p |-> [p EXCEPT !.buffer = drain(p.buffer, 2), !.chunk_state = "Size"],
                  r |-> r, next |-> TRUE, adv |-> FALSE, err |-> ""]
            ELSE [p |-> p, r |-> r, next |-> FALSE, adv |-> FALSE, err |-> ""]

RECURSIVE chunk_loop(_)
chunk_loop(step) ==
    IF step.next THEN chunk_loop(chunk_step(step.p, step.r))
    ELSE Ret(step.p, step.r, step.adv, step.err)

parse_chunked_body(p, r) == chunk_loop(chunk_step(p, r))

\* The end of the Headers arm of parse: the body mode is read off the headers.
headers_state(p, r) ==
    IF p.content_length # None \/ p.is_chunked
    THEN Ret([p EXCEPT !.state = "Body"], r, TRUE, "")
    ELSE Ret([p EXCEPT !.state = "Done"], [r EXCEPT !.complete = TRUE], FALSE, "")

\* Mutant: only the lower-case token selects the chunked mode.
headers_chunked_exact(p, r, te) ==
    headers_state(IF te # None /\ contains(te[1], S_chunked)
                  THEN [p EXCEPT !.is_chunked = TRUE]
                  ELSE p, r)

headers_chunked(p, r, te) ==
    headers_state(IF te # None /\ contains(to_lowercase(te[1]), S_chunked)
                  THEN [p EXCEPT !.is_chunked = TRUE]
                  ELSE p, r)

headers_length(p, r, cl) ==
    headers_chunked(IF cl # None
                    THEN [p EXCEPT !.content_length = from_str_radix(cl[1], 10)]
                    ELSE p,
                    r, MapGet(r.headers, S_transfer_encoding))

headers_done(p, r) ==
    headers_length([p EXCEPT !.headers_complete = TRUE], r,
                   MapGet(r.headers, S_content_length))

\* The loop of parse: what follows a step that returned res
RECURSIVE parse_loop(_, _)
after_request_line(res) ==
    IF res.err # "" \/ ~res.adv THEN res
    ELSE parse_loop([res.p EXCEPT !.state = "Headers"], res.r)

after_headers_done(hd) == IF hd.adv THEN parse_loop(hd.p, hd.r) ELSE hd

after_headers(res) ==
    IF res.err # "" \/ ~res.adv THEN res
    ELSE after_headers_done(headers_done(res.p, res.r))

after_body(res) ==
    IF res.err # "" \/ ~res.adv THEN res
    ELSE Ret([res.p EXCEPT !.state = "Done"], [res.r EXCEPT !.complete = TRUE], FALSE, "")

parse_loop(p, r) ==
    CASE p.state = "RequestLine" -> after_request_line(parse_request_line(p, r))
      [] p.state = "Headers" -> after_headers(parse_headers(p, r))
      [] p.state = "Body" ->
            after_body(IF p.is_chunked THEN parse_chunked_body(p, r)
                       ELSE parse_body(p, r))
      [] p.state = "Done" -> Ret(p, [r EXCEPT !.complete = TRUE], FALSE, "")

\* Mutant: the new bytes replace the accumulation buffer.
extend_from_slice_replace(buffer, data) == data

\* self.buffer.extend_from_slice(data)
extend_from_slice(buffer, data) == buffer \o data

\* HttpParser::parse(data, request)
parse(p, data, r) ==
    parse_loop([p EXCEPT !.buffer = extend_from_slice(p.buffer, data)], r)

is_complete(p) == p.state = "Done"

(***************************************************************************)
(* config.rs: Route, and the routes the model configures                   *)
(***************************************************************************)
S_DELETE == <<"D","E","L","E","T","E">>
S_GET == <<"G","E","T">>
S_POST == <<"P","O","S","T">>

\* The Route that parse_location builds for `location <path> {` with no directive.
Route_default(path) ==
    [path |-> path, methods |-> <<S_GET, S_POST, S_DELETE>>, root |-> None,
     index |-> <<<<"i">>>>, autoindex |-> FALSE, redirect |-> None,
     cgi_extension |-> None, cgi_path |-> None, upload_dir |-> None]

(***************************************************************************)
(* server.rs: the router                                                   *)
(***************************************************************************)
\* uri.split('?').next().unwrap_or(uri)
UriPath(uri) == SplitFirst(uri, "?")

\* The loop of find_route from route i on; best is Option<index of the route>.
RECURSIVE find_route_from(_, _, _, _, _)
find_route_from(uri_path, routes, i, best_match, best_len) ==
    IF i > Len(routes) THEN best_match
    ELSE IF starts_with(uri_path, routes[i].path) /\ Len(routes[i].path) > best_len
    THEN find_route_from(uri_path, routes, i + 1, Some(i), Len(routes[i].path))
    ELSE find_route_from(uri_path, routes, i + 1, best_match, best_len)

\* Server::find_route: the index in routes of the chosen route, or None
find_route(uri, routes) == find_route_from(UriPath(uri), routes, 1, None, 0)

(***************************************************************************)
(* http_response.rs                                                        *)
(*                                                                         *)
(* Header names are byte strings.  Fixed header values and the fixed text  *)
(* of the HTML templates are single symbols; a body is a sequence of       *)
(* symbols and its length is the number of them.                           *)
(***************************************************************************)
S_Server == <<"S","e","r","v","e","r">>
S_Connection == <<"C","o","n","n","e","c","t","i","o","n">>
S_Content_Length == <<"C","o","n","t","e","n","t","-","L","e","n","g","t","h">>
S_Content_Type == <<"C","o","n","t","e","n","t","-","T","y","p","e">>
S_Location == <<"L","o","c","a","t","i","o","n">>
S_Set_Cookie == <<"S","e","t","-","C","o","o","k","i","e">>

status_text(code) ==
    CASE code = 200 -> "OK"
      [] code = 201 -> "Created"
      [] code = 204 -> "No Content"
      [] code = 301 -> "Moved Permanently"
      [] code = 302 -> "Found"
      [] code = 304 -> "Not Modified"
      [] code = 400 -> "Bad Request"
      [] code = 403 -> "Forbidden"
      [] code = 404 -> "Not Found"
      [] code = 405 -> "Method Not Allowed"
      [] code = 413 -> "Payload Too Large"
      [] code = 500 -> "Internal Server Error"
      [] code = 501 -> "Not Implemented"
      [] OTHER -> "Unknown"

HttpResponse_new(status_code) ==
    [status_code |-> status_code,
     status_text |-> status_text(status_code),
     headers |-> MapInsert(MapInsert(EmptyMap, S_Server, <<"Webserv/1.0">>),
                           S_Connection, <<"keep-alive">>),
     body |-> <<>>]

add_header(response, key, value) ==
    [response EXCEPT !.headers = MapInsert(response.headers, key, value)]

set_body(response, body) ==
    [response EXCEPT !.headers =
                         MapInsert(response.headers, S_Content_Length, to_string(Len(body))),
                     !.body = body]

\* One unit of the serialized response: the status line, one header line, the
\* blank line, or one body byte.
WireStatus(code, text) == [kind |-> "status", name |-> to_string(code), value |-> <<text>>]
WireHeader(name, value) == [kind |-> "header", name |-> name, value |-> value]
WireBlank == [kind |-> "blank", name |-> <<>>, value |-> <<>>]
WireBody(b) == [kind |-> "body", name |-> <<>>, value |-> <<b>>]

\* The header lines in the order the HashMap iterates them (one fixed order).
RECURSIVE HeaderLines(_, _)
HeaderLines(headers, keys) ==
    IF keys = {} THEN <<>>
    ELSE LET k == CHOOSE x \in keys : TRUE
         IN  <<WireHeader(k, headers[k])>> \o HeaderLines(headers, keys \ {k})

to_bytes(response) ==
    <<WireStatus(response.status_code, response.status_text)>>
        \o HeaderLines(response.headers, DOMAIN response.headers)
        \o <<WireBlank>>
        \o [i \in 1..Len(response.body) |-> WireBody(response.body[i])]

(***************************************************************************)
(* The filesystem: a map from path to [kind, content].                     *)
(***************************************************************************)
FsFile(content) == [kind |-> "file", content |-> content]
FsDir == [kind |-> "dir", content |-> <<>>]

\* std::disk::metadata(path).is_ok() / Path::exists
fs_exists(disk, path) == path \in DOMAIN disk
fs_is_dir(disk, path) == path \in DOMAIN disk /\ disk[path].kind = "dir"
\* std::disk::read(path): Some(content) for a regular file
fs_read(disk, path) ==
    IF path \in DOMAIN disk /\ disk[path].kind = "file" THEN Some(disk[path].content) ELSE None
\* std::disk::remove_file(path): only a regular file is removed
fs_can_remove(disk, path) == path \in DOMAIN disk /\ disk[path].kind = "file"
fs_remove(disk, path) == [x \in DOMAIN disk \ {path} |-> disk[x]]
fs_write(disk, path, content) == MapInsert(disk, path, FsFile(content))

\* The names of the entries of directory dir
fs_entries(disk, dir) ==
    {Slice(p, Len(dir) + 1, Len(p)) :
        p \in {q \in DOMAIN disk : /\ Len(q) > Len(dir) + 1
                                 /\ starts_with(q, dir \o <<"/">>)
                                 /\ find(Slice(q, Len(dir) + 1, Len(q)), <<"/">>) = None}}

\* Byte strings compared as Rust compares String: lexicographically.
ByteRank == <<".", "/", "0", "1", "a", "b", "c", "d", "e", "f", "g", "h", "i", "j", "k",
              "l", "m", "n", "o", "p", "q", "r", "s", "t", "u", "v", "w", "x", "y", "z">>

RECURSIVE StrLess(_, _)
StrLess(a, b) ==
    IF b = <<>> THEN FALSE
    ELSE IF a = <<>> THEN TRUE
    ELSE IF a[1] # b[1] THEN IndexIn(a[1], ByteRank) < IndexIn(b[1], ByteRank)
    ELSE StrLess(Tail(a), Tail(b))

\* file_names.sort()
RECURSIVE SortNames(_)
SortNames(names) ==
    IF names = {} THEN <<>>
    ELSE LET m == CHOOSE x \in names : \A y \in names \ {x} : StrLess(x, y)
         IN  <<m>> \o SortNames(names \ {m})

\* HttpResponse::error_page(code, custom_page)
error_page(code, custom_page, disk) ==
    LET response == HttpResponse_new(code)
        content == IF custom_page = None THEN None ELSE fs_read(disk, custom_page[1])
    IN  IF content # None
        THEN set_body(add_header(response, S_Content_Type, <<"text/html">>), content[1])
        ELSE set_body(add_header(response, S_Content_Type, <<"text/html">>),
                      <<"<h1>">> \o to_string(code) \o <<status_text(code), "</h1>">>)

RECURSIVE ListingLinks(_, _, _, _)
ListingLinks(disk, path, uri, entries) ==
    IF entries = <<>> THEN <<>>
    ELSE LET entry == Head(entries)
             display_name == IF fs_is_dir(disk, path \o <<"/">> \o entry)
                             THEN entry \o <<"/">> ELSE entry
         IN  <<"<a href=">> \o (IF ends_with(uri, <<"/">>) THEN <<>> ELSE <<"/">>)
                 \o entry \o <<">">> \o display_name \o <<"</a>">>
                 \o ListingLinks(disk, path, uri, Tail(entries))

\* HttpResponse::directory_listing(path, uri, entries)
directory_listing(disk, path, uri, entries) ==
    LET body == <<"<h1>Index of ">> \o uri \o <<"</h1>">>
                    \o (IF uri # <<"/">> THEN <<"<a href=../>../</a>">> ELSE <<>>)
                    \o ListingLinks(disk, path, uri, entries)
                    \o <<"</body></html>">>
    IN  set_body(add_header(HttpResponse_new(200), S_Content_Type, <<"text/html">>), body)

(***************************************************************************)
(* session.rs                                                              *)
(***************************************************************************)
S_cookie == <<"c","o","o","k","i","e">>
S_sessionid == <<"s","e","s","s","i","o","n","i","d">>

\* s.split(sep).collect()
RECURSIVE SplitAll(_, _)
SplitAll(s, sep) ==
    LET f == find(s, <<sep>>)
    IN  IF f = None THEN <<s>>
        ELSE <<Slice(s, 0, f[1])>> \o SplitAll(Slice(s, f[1] + 1, Len(s)), sep)

RECURSIVE parse_cookies_from(_, _)
parse_cookies_from(parts, cookies) ==
    IF parts = <<>> THEN cookies
    ELSE LET cookie == trim(Head(parts))
             eq_pos == find(cookie, <<"=">>)
         IN  parse_cookies_from(Tail(parts),
                 IF eq_pos = None THEN cookies
                 ELSE MapInsert(cookies, trim(Slice(cookie, 0, eq_pos[1])),
                                trim(Slice(cookie, eq_pos[1] + 1, Len(cookie)))))

\* parse_cookies(cookie_header)
parse_cookies(cookie_header) == parse_cookies_from(SplitAll(cookie_header, ";"), EmptyMap)

\* create_set_cookie(name, value, Some(max_age))
create_set_cookie(name, value, max_age) ==
    name \o <<"=">> \o value \o <<"; Path=/; HttpOnly">> \o <<"; Max-Age=">> \o to_string(max_age)

\* SessionManager::generate_session_id: a hash over the time, the pid and the
\* number of ids; the model writes it as the hex text of that number.
generate_session_id(ids) == <<HexLower[Cardinality(ids) + 1]>>

(***************************************************************************)
(* cgi.rs                                                                  *)
(***************************************************************************)
S_status == <<"s","t","a","t","u","s">>

\* str::lines(): split on LF, a CR before the LF dropped, no empty last line
RECURSIVE lines(_)
lines(s) ==
    IF s = <<>> THEN <<>>
    ELSE LET f == find(s, <<LF>>)
             raw == IF f = None THEN s ELSE Slice(s, 0, f[1])
             line == IF raw # <<>> /\ raw[Len(raw)] = CR
                     THEN SubSeq(raw, 1, Len(raw) - 1) ELSE raw
         IN  <<line>> \o (IF f = None THEN <<>> ELSE lines(Slice(s, f[1] + 1, Len(s))))

RECURSIVE cgi_header_lines(_, _)
cgi_header_lines(ls, headers) ==
    IF ls = <<>> THEN headers
    ELSE LET line == Head(ls)
             colon_pos == find(line, <<":">>)
         IN  cgi_header_lines(Tail(ls),
                 IF colon_pos = None THEN headers
                 ELSE MapInsert(headers, to_lowercase(trim(Slice(line, 0, colon_pos[1]))),
                                trim(Slice(line, colon_pos[1] + 1, Len(line)))))

\* CgiHandler::parse_cgi_output(output): (headers, body)
parse_cgi_output(output) ==
    LET crlf2 == find(output, CRLF \o CRLF)
        lf2 == find(output, <<LF, LF>>)
    IN  IF crlf2 # None
        THEN [headers |-> cgi_header_lines(lines(Slice(output, 0, crlf2[1])), EmptyMap),
              body |-> Slice(output, crlf2[1] + 4, Len(output))]
        ELSE IF lf2 # None
        THEN [headers |-> cgi_header_lines(lines(Slice(output, 0, lf2[1])), EmptyMap),
              body |-> Slice(output, lf2[1] + 2, Len(output))]
        ELSE [headers |-> EmptyMap, body |-> output]

(***************************************************************************)
(* The configuration the model runs: what Config::parse builds from        *)
(*   server { listen 127.0.0.1:8080; client_max_body_size 1;               *)
(*            error_page 404 e4; error_page 413 e9;                        *)
(*     location /a { root w; index i; cgi_extension .c; upload_dir u; }    *)
(*     location /r { allow_methods GET; return 301 /a; }                   *)
(*     location /g { allow_methods GET; root d; index i; autoindex on; } } *)
(***************************************************************************)
Route_a ==
    [Route_default(<<"/", "a">>) EXCEPT !.root = Some(<<"w">>),
                                        !.cgi_extension = Some(<<".", "c">>),
                                        !.upload_dir = Some(<<"u">>)]
Route_r ==
    [Route_default(<<"/", "r">>) EXCEPT !.methods = <<S_GET>>,
                                        !.redirect = Some(<<301, <<"/", "a">>>>)]
Route_g ==
    [Route_default(<<"/", "g">>) EXCEPT !.methods = <<S_GET>>,
                                        !.root = Some(<<"d">>),
                                        !.autoindex = TRUE]

ServerConfig_1 ==
    [host |-> "127.0.0.1", port |-> 8080, server_names |-> <<>>,
     error_pages |-> [c \in {404, 413} |-> IF c = 404 THEN <<"e", "4">> ELSE <<"e", "9">>],
     client_max_body_size |-> 1,
     routes |-> <<Route_a, Route_r, Route_g>>]

Servers == <<ServerConfig_1>>

\* The files at startup: w/f, the script w/x.c, the directory d with d/k, and
\* the custom 404 page e4 (the 413 page e9 does not exist).
InitialFs ==
    [p \in {<<"w">>, <<"w", "/", "f">>, <<"w", "/", "x", ".", "c">>,
            <<"d">>, <<"d", "/", "k">>, <<"e", "4">>} |->
        CASE p = <<"w">> -> FsDir
          [] p = <<"d">> -> FsDir
          [] p = <<"w", "/", "f">> -> FsFile(<<"h", "i">>)
          [] p = <<"e", "4">> -> FsFile(<<"n", "f">>)
          [] OTHER -> FsFile(<<"#">>)]

(***************************************************************************)
(* server.rs: the dispatcher                                               *)
(***************************************************************************)
S_content_type == <<"c","o","n","t","e","n","t","-","t","y","p","e">>
S_multipart == <<"m","u","l","t","i","p","a","r","t","/","f","o","r","m","-","d","a","t","a">>
S_boundary == <<"b","o","u","n","d","a","r","y","=">>

\* What a handler leaves behind: the response, the filesystem, the filesystem
\* and process operations it performed, and the time it blocked the loop.
Out(response, disk, fx, secs) == [response |-> response, fs |-> disk, fx |-> fx, secs |-> secs]

\* server_config.error_pages.get(&code)
custom_page(config, code) ==
    IF code \in DOMAIN config.error_pages THEN Some(config.error_pages[code]) ELSE None

\* An error response; reading a configured custom page is an operation too.
ErrorOut(code, config, disk, fx) ==
    Out(error_page(code, custom_page(config, code), disk), disk,
        fx \cup (IF custom_page(config, code) # None THEN {"read_error_page"} ELSE {}), 0)

\* str::trim_start_matches('/')
RECURSIVE trim_start_slashes(_)
trim_start_slashes(s) ==
    IF s # <<>> /\ s[1] = "/" THEN trim_start_slashes(Tail(s)) ELSE s

\* Server::resolve_path
resolve_path(uri_path, route) ==
    LET root == IF route.root # None THEN route.root[1] ELSE <<".">>
        relative_path == trim_start_slashes(
            IF starts_with(uri_path, route.path)
            THEN Slice(uri_path, Len(route.path), Len(uri_path))
            ELSE uri_path)
    IN  IF relative_path = <<>> THEN root ELSE root \o <<"/">> \o relative_path

\* str::rfind(c): 0-based offset of the last c, or None
rfind(s, c) ==
    LET ks == {k \in 1..Len(s) : s[k] = c}
    IN  IF ks = {} THEN None ELSE Some((CHOOSE k \in ks : \A j \in ks : j <= k) - 1)

\* Path::new(file_path).extension(): the text after the last '.' of the file
\* name, when the name has one that is not its first byte
extension(file_path) ==
    LET slash == rfind(file_path, "/")
        name == IF slash = None THEN file_path
                ELSE Slice(file_path, slash[1] + 1, Len(file_path))
        dot == rfind(name, ".")
    IN  IF dot = None \/ dot[1] = 0 THEN <<>> ELSE Slice(name, dot[1] + 1, Len(name))

\* The match of get_content_type on the extension
content_type_of(e) ==
    CASE e \in {<<"h","t","m","l">>, <<"h","t","m">>} -> <<"text/html">>
      [] e = <<"c","s","s">> -> <<"text/css">>
      [] e = <<"j","s">> -> <<"application/javascript">>
      [] e = <<"j","s","o","n">> -> <<"application/json">>
      [] e = <<"p","n","g">> -> <<"image/png">>
      [] e \in {<<"j","p","g">>, <<"j","p","e","g">>} -> <<"image/jpeg">>
      [] e = <<"g","i","f">> -> <<"image/gif">>
      [] e = <<"s","v","g">> -> <<"image/svg+xml">>
      [] e = <<"p","d","f">> -> <<"application/pdf">>
      [] e = <<"t","x","t">> -> <<"text/plain">>
      [] OTHER -> <<"application/octet-stream">>

\* Server::get_content_type
get_content_type(file_path) == content_type_of(extension(file_path))

\* Server::serve_file
serve_file(config, disk, file_path, fx) ==
    LET content == fs_read(disk, file_path)
    IN  IF content = None THEN ErrorOut(404, config, disk, fx \cup {"read_file"})
        ELSE Out(set_body(add_header(HttpResponse_new(200), S_Content_Type,
                                     get_content_type(file_path)),
                          content[1]),
                 disk, fx \cup {"read_file"}, 0)

\* Server::serve_directory_listing; env.io_ok is whether read_dir succeeds
serve_directory_listing(config, disk, dir_path, uri_path, env, fx) ==
    IF ~env.io_ok THEN ErrorOut(500, config, disk, fx \cup {"read_dir"})
    ELSE Out(directory_listing(disk, dir_path, uri_path, SortNames(fs_entries(disk, dir_path))),
             disk, fx \cup {"read_dir"}, 0)

\* The copy of the CGI headers into the response, the Status header left out
RECURSIVE copy_cgi_headers(_, _, _)
copy_cgi_headers(response, cgi_headers, keys) ==
    IF keys = {} THEN response
    ELSE LET key == CHOOSE k \in keys : TRUE
         IN  copy_cgi_headers(
                 IF key # S_status THEN add_header(response, key, cgi_headers[key])
                 ELSE response,
                 cgi_headers, keys \ {key})

\* The status of a CGI response: the first token of the Status header as a
\* u16, or 200
status_u16(n) == IF n # None /\ n[1] < 65536 THEN n[1] ELSE 200

status_token(tok) == status_u16(IF tok = <<>> THEN None ELSE from_str_radix(tok[1], 10))

status_header(st) == status_token(IF st = None THEN <<>> ELSE split_whitespace(st[1]))

cgi_status_code(cgi_headers) == status_header(MapGet(cgi_headers, S_status))

\* response.headers.contains_key("Content-Type"), else text/html
default_content_type(response) ==
    IF S_Content_Type \notin DOMAIN response.headers
    THEN add_header(response, S_Content_Type, <<"text/html">>)
    ELSE response

\* The Ok arm of execute_cgi on the parsed output of the child
cgi_response(parsed) ==
    set_body(default_content_type(
                 copy_cgi_headers(HttpResponse_new(cgi_status_code(parsed.headers)),
                                  parsed.headers, DOMAIN parsed.headers)),
             parsed.body)

\* What the interpreter process does: whether it can be spawned, whether its
\* stdin takes the request body, whether it exits with status 0, and what it
\* writes to stdout and to stderr
Child(spawned, stdin_ok, exit_ok, stdout, stderr) ==
    [spawned |-> spawned, stdin_ok |-> stdin_ok, exit_ok |-> exit_ok,
     stdout |-> stdout, stderr |-> stderr]

\* CgiHandler::execute: Err(message) or Ok(output.stdout)
CgiHandler_execute(body, child) ==
    IF ~child.spawned
    THEN [ok |-> FALSE, output |-> <<"Failed to spawn CGI process: ">>]
    ELSE IF body # <<>> /\ ~child.stdin_ok
    THEN [ok |-> FALSE, output |-> <<"Failed to write to CGI stdin: ">>]
    ELSE IF ~child.exit_ok
    THEN [ok |-> FALSE, output |-> <<"CGI script failed: ">> \o child.stderr]
    ELSE [ok |-> TRUE, output |-> child.stdout]

\* Mutant: the Err arm answers 500 with the message of the error.
cgi_executed_leak(config, disk, env, fx, result) ==
    IF ~result.ok
    THEN Out(set_body(add_header(HttpResponse_new(500), S_Content_Type, <<"text/html">>),
                      result.output),
             disk, fx \cup {"spawn_cgi", "cgi_failed"}, env.secs)
    ELSE Out(cgi_response(parse_cgi_output(result.output)), disk,
             fx \cup {"spawn_cgi"}, env.secs)

\* The match on the result of CgiHandler::execute in execute_cgi; the label
\* cgi_failed records the Err arm
cgi_executed(config, disk, env, fx, result) ==
    IF ~result.ok THEN [ErrorOut(500, config, disk, fx \cup {"spawn_cgi", "cgi_failed"})
                           EXCEPT !.secs = env.secs]
    ELSE Out(cgi_response(parse_cgi_output(result.output)), disk,
             fx \cup {"spawn_cgi"}, env.secs)

\* Server::execute_cgi; env.cgi is the child and env.secs how long it runs
execute_cgi(req, config, disk, env, fx) ==
    cgi_executed(config, disk, env, fx, CgiHandler_execute(req.body, env.cgi))

\* The first index file of the route that exists under file_path, or None
RECURSIVE first_index(_, _, _)
first_index(disk, file_path, index) ==
    IF index = <<>> THEN None
    ELSE IF fs_exists(disk, file_path \o <<"/">> \o Head(index))
    THEN Some(file_path \o <<"/">> \o Head(index))
    ELSE first_index(disk, file_path, Tail(index))

\* Server::handle_get
handle_get(req, config, route, disk, env) ==
    IF route = None THEN ErrorOut(404, config, disk, {})
    ELSE LET rt == config.routes[route[1]]
             uri_path == UriPath(req.uri)
             file_path == resolve_path(uri_path, rt)
             index_path == first_index(disk, file_path, rt.index)
         IN  IF ~fs_exists(disk, file_path) THEN ErrorOut(404, config, disk, {"metadata"})
             ELSE IF fs_is_dir(disk, file_path)
             THEN IF index_path # None
                  THEN serve_file(config, disk, index_path[1], {"metadata"})
                  ELSE IF rt.autoindex
                  THEN serve_directory_listing(config, disk, file_path, uri_path, env,
                                               {"metadata"})
                  ELSE ErrorOut(403, config, disk, {"metadata"})
             ELSE IF rt.cgi_extension # None /\ ends_with(file_path, rt.cgi_extension[1])
             THEN execute_cgi(req, config, disk, env, {"metadata"})
             ELSE serve_file(config, disk, file_path, {"metadata"})

\* Server::handle_file_upload; env.io_ok is whether std::fs::write succeeds
handle_file_upload(req, config, rt, disk, env) ==
    LET upload_dir == IF rt.upload_dir # None THEN rt.upload_dir[1]
                      ELSE <<".", "/", "u", "p", "l", "o", "a", "d", "s">>
        content_type == MapGet(req.headers, S_content_type)
        boundary_start == IF content_type = None THEN None
                          ELSE find(content_type[1], S_boundary)
        filename == upload_dir \o <<"/", "upload_<secs>.bin">>
        fs1 == IF fs_exists(disk, upload_dir) THEN disk ELSE MapInsert(disk, upload_dir, FsDir)
    IN  IF boundary_start # None
        THEN IF ~env.io_ok THEN ErrorOut(500, config, fs1, {"create_dir", "write_file"})
             ELSE Out(set_body(HttpResponse_new(201),
                               <<"File uploaded successfully: ">> \o filename),
                      fs_write(fs1, filename, req.body), {"create_dir", "write_file"}, 0)
        ELSE Out(set_body(HttpResponse_new(200), <<"Upload processed">>),
                 fs1, {"create_dir"}, 0)

\* Mutant: the CGI extension is looked at before the Content-Type.
handle_post_cgi_first(req, config, route, disk, env) ==
    IF route = None THEN ErrorOut(404, config, disk, {})
    ELSE LET rt == config.routes[route[1]]
             uri_path == UriPath(req.uri)
             content_type == MapGet(req.headers, S_content_type)
         IN  IF rt.cgi_extension # None /\ ends_with(uri_path, rt.cgi_extension[1])
             THEN execute_cgi(req, config, disk, env, {})
             ELSE IF content_type # None /\ contains(content_type[1], S_multipart)
             THEN handle_file_upload(req, config, rt, disk, env)
             ELSE Out(set_body(HttpResponse_new(200), <<"POST request received">>),
                      disk, {}, 0)

\* Server::handle_post
handle_post(req, config, route, disk, env) ==
    IF route = None THEN ErrorOut(404, config, disk, {})
    ELSE LET rt == config.routes[route[1]]
             uri_path == UriPath(req.uri)
             content_type == MapGet(req.headers, S_content_type)
         IN  IF content_type # None /\ contains(content_type[1], S_multipart)
             THEN handle_file_upload(req, config, rt, disk, env)
             ELSE IF rt.cgi_extension # None /\ ends_with(uri_path, rt.cgi_extension[1])
             THEN execute_cgi(req, config, disk, env, {})
             ELSE Out(set_body(HttpResponse_new(200), <<"POST request received">>),
                      disk, {}, 0)

\* Mutant: the result of remove_file is not looked at.
handle_delete_unchecked(req, config, route, disk, env) ==
    IF route = None THEN ErrorOut(404, config, disk, {})
    ELSE LET file_path == resolve_path(UriPath(req.uri), config.routes[route[1]])
         IN  IF fs_can_remove(disk, file_path) /\ env.io_ok
             THEN Out(HttpResponse_new(204), fs_remove(disk, file_path), {"remove_file"}, 0)
             ELSE Out(HttpResponse_new(204), disk, {"remove_file"}, 0)

\* Server::handle_delete; env.io_ok is whether the removal is permitted
handle_delete(req, config, route, disk, env) ==
    IF route = None THEN ErrorOut(404, config, disk, {})
    ELSE LET file_path == resolve_path(UriPath(req.uri), config.routes[route[1]])
         IN  IF fs_can_remove(disk, file_path) /\ env.io_ok
             THEN Out(HttpResponse_new(204), fs_remove(disk, file_path), {"remove_file"}, 0)
             ELSE ErrorOut(404, config, disk, {"remove_file"})

\* Mutant: every method is taken to be allowed.
methods_contain_any(methods, method) == TRUE

\* route.methods.contains(&method)
methods_contain(methods, method) == \E i \in 1..Len(methods) : methods[i] = method

\* The tail of process_request: the match on the method
method_dispatch(req, config, route, disk, env) ==
    CASE req.method = S_GET -> handle_get(req, config, route, disk, env)
      [] req.method = S_POST -> handle_post(req, config, route, disk, env)
      [] req.method = S_DELETE -> handle_delete(req, config, route, disk, env)
      [] OTHER -> ErrorOut(405, config, disk, {})

\* Mutant: the redirect without its Location header.
redirect_response_bare(redirect) == HttpResponse_new(redirect[1])

\* The redirect branch of process_request
redirect_response(redirect) ==
    add_header(HttpResponse_new(redirect[1]), S_Location, redirect[2])

\* Mutant: no body is too large.
body_too_large_never(req, config) == FALSE

\* The body-size gate of process_request
body_too_large(req, config) == Len(req.body) > config.client_max_body_size

\* Server::process_request
process_request(req, config, disk, env) ==
    IF body_too_large(req, config) THEN ErrorOut(413, config, disk, {})
    ELSE LET route == find_route(req.uri, config.routes)
         IN  IF route # None /\ ~methods_contain(config.routes[route[1]].methods, req.method)
             THEN ErrorOut(405, config, disk, {})
             ELSE IF route # None /\ config.routes[route[1]].redirect # None
             THEN Out(redirect_response(config.routes[route[1]].redirect[1]), disk, {}, 0)
             ELSE method_dispatch(req, config, route, disk, env)

\* Mutant: a session is created for every response.
session_cookie_always(req, ids, response) ==
    [response |-> add_header(response, S_Set_Cookie,
                             create_set_cookie(S_sessionid, generate_session_id(ids), 3600)),
     sessions |-> ids \cup {generate_session_id(ids)}]

\* The session part of send_response: the response with its Set-Cookie, and
\* the session table
session_cookie(req, ids, response) ==
    LET cookie_header == MapGet(req.headers, S_cookie)
        session_id == IF cookie_header = None THEN None
                      ELSE MapGet(parse_cookies(cookie_header[1]), S_sessionid)
        new_id == generate_session_id(ids)
    IN  IF session_id # None /\ session_id[1] \in ids
        THEN [response |-> response, sessions |-> ids]
        ELSE [response |-> add_header(response, S_Set_Cookie,
                                      create_set_cookie(S_sessionid, new_id, 3600)),
              sessions |-> ids \cup {new_id}]

(***************************************************************************)
(* server.rs: the event loop                                               *)
(*                                                                         *)
(* Descriptors are numbers: the listeners are 1..Len(Servers) and the      *)
(* accepted connections take the lowest free number above them, as the     *)
(* kernel hands out descriptors.                                           *)
(***************************************************************************)
CLIENT_TIMEOUT == 30
WAIT_TIMEOUT == 1

Listeners == 1..Len(Servers)
ClientFds ==
    (Len(Servers) + 1)..(Len(Servers) + IF mode = "timed" THEN MaxTimedClients
                                        ELSE MaxClients)

\* Server::is_listener
is_listener(fd) == fd \in Listeners

\* Server::find_server_config on the servers of the configuration: the
\* first server with the port of the listener's local address
find_server_config_in(servers, listener_fd) ==
    LET port == servers[listener_fd].port
        same == {i \in 1..Len(servers) : servers[i].port = port}
    IN  IF same = {} THEN 1 ELSE CHOOSE i \in same : \A j \in same : i <= j

\* Server::find_server_config
find_server_config(listener_fd) == find_server_config_in(Servers, listener_fd)

\* The Client that accept_connection builds around a server_config; the
\* record holds the index of the ServerConfig it is a clone of
Client_of(server_config) ==
    [state |-> "Reading", response |-> <<>>, written |-> 0,
     parser |-> HttpParser_new, request |-> HttpRequest_new,
     server_config |-> server_config]

Client_new(listener_fd) == Client_of(find_server_config(listener_fd))

Socket_new == [inq |-> <<>>, tosend |-> <<>>, peer |-> "open", outq |-> <<>>]

\* Restriction and extension of the per-descriptor maps
Without(f, fd) == [x \in DOMAIN f \ {fd} |-> f[x]]
With(f, fd, v) == [x \in DOMAIN f \cup {fd} |-> IF x = fd THEN v ELSE f[x]]

\* The socket call a handler made for fd and what it returned: op is "read",
\* "write" or "none"; res is "ok" (n bytes), "block" (WouldBlock), "eof"
\* (read returned 0), "zero" (write returned 0) or "error"
Io(fd, op, res, n) == [fd |-> fd, op |-> op, res |-> res, n |-> n]
NoIo == Io(0, "none", "none", 0)

\* The whole server state, as the handlers pass it along
State == [clients |-> clients, idle |-> idle, ops |-> ops, served |-> served,
          answered |-> answered, io |-> io, interest |-> interest,
          sock |-> sock, fs |-> fs, sessions |-> sessions]

\* Server::close_client: remove from the table, epoll.delete, drop the stream
close_client(s, fd) ==
    IF fd \in DOMAIN s.clients
    THEN [s EXCEPT !.clients = Without(s.clients, fd),
                   !.idle = Without(s.idle, fd),
                   !.ops = Without(s.ops, fd),
                   !.served = Without(s.served, fd),
                   !.answered = Without(s.answered, fd),
                   !.interest = Without(s.interest, fd),
                   !.sock = Without(s.sock, fd)]
    ELSE s

\* Server::check_timeouts
RECURSIVE close_all(_, _)
close_all(s, fds) ==
    IF fds = {} THEN s
    ELSE LET fd == CHOOSE x \in fds : TRUE
         IN  close_all(close_client(s, fd), fds \ {fd})

timed_out(s, fd) == s.idle[fd] > CLIENT_TIMEOUT

check_timeouts(s) == close_all(s, {fd \in DOMAIN s.clients : timed_out(s, fd)})

\* Time passing: every connection's last_activity grows older
elapse(s, secs) == [s EXCEPT !.idle = [fd \in DOMAIN s.idle |-> s.idle[fd] + secs]]

\* Mutant: the response is stored and the registration is left as it was.
queue_response_unarmed(s, fd, sc, fx) ==
    [s EXCEPT !.clients[fd].state = "Writing",
              !.clients[fd].response = to_bytes(sc.response),
              !.clients[fd].written = 0,
              !.sessions = sc.sessions,
              !.ops[fd] = fx]

\* The tail of send_response: the state becomes Writing, epoll.modify(OUT)
queue_response(s, fd, sc, fx) ==
    [s EXCEPT !.clients[fd].state = "Writing",
              !.clients[fd].response = to_bytes(sc.response),
              !.clients[fd].written = 0,
              !.sessions = sc.sessions,
              !.ops[fd] = fx,
              !.interest[fd] = "OUT"]

\* Server::send_response
send_response(s, fd, response, fx) ==
    queue_response(s, fd, session_cookie(s.clients[fd].request, s.sessions, response), fx)

\* process_request and what follows it: the response of the dispatch is
\* queued, and the loop has been blocked for as long as the dispatch took
dispatched(s, fd, out) ==
    elapse(send_response([s EXCEPT !.fs = out.fs], fd, out.response, out.fx), out.secs)

\* The Ok(n) arm of handle_read after the parse: answer 400 on a parser
\* error, dispatch a complete request
parsed(s, fd, res, env) ==
    IF res.err # "" THEN send_response(s, fd, error_page(400, None, s.fs), {})
    ELSE IF res.r.complete
    THEN dispatched(s, fd, process_request(res.r, Servers[s.clients[fd].server_config],
                                           s.fs, env))
    ELSE s

\* client.parser.parse(&buffer[..n], &mut client.request) in place
parse_into(s, fd, res, env) ==
    parsed([s EXCEPT !.clients[fd].parser = res.p, !.clients[fd].request = res.r],
           fd, res, env)

\* The Ok(n) arm of handle_read
on_read(s, fd, data, env) ==
    parse_into(s, fd, parse(s.clients[fd].parser, data, s.clients[fd].request), env)

\* client.last_activity = Instant::now()
touch(s, fd) == [s EXCEPT !.idle[fd] = 0]

\* Mutant: a read of zero bytes is taken for "no data yet".
handle_read_past_eof(s, fd, env) ==
    LET k == s.sock[fd]
        s0 == touch(s, fd)
    IN  IF k.inq # <<>>
        THEN on_read([s0 EXCEPT !.sock[fd].inq = <<>>, !.io = Io(fd, "read", "ok", Len(k.inq))],
                     fd, k.inq, env)
        ELSE IF k.peer = "open" THEN [s0 EXCEPT !.io = Io(fd, "read", "block", 0)]
        ELSE IF k.peer = "closed" THEN [s0 EXCEPT !.io = Io(fd, "read", "eof", 0)]
        ELSE close_client([s0 EXCEPT !.io = Io(fd, "read", "error", 0)], fd)

\* Server::handle_read followed by run's close_client on Err
handle_read(s, fd, env) ==
    LET k == s.sock[fd]
        s0 == touch(s, fd)
    IN  IF k.inq # <<>>
        THEN on_read([s0 EXCEPT !.sock[fd].inq = <<>>, !.io = Io(fd, "read", "ok", Len(k.inq))],
                     fd, k.inq, env)
        ELSE IF k.peer = "open" THEN [s0 EXCEPT !.io = Io(fd, "read", "block", 0)]
        ELSE close_client([s0 EXCEPT !.io = Io(fd, "read",
                                               IF k.peer = "closed" THEN "eof" ELSE "error",
                                               0)],
                          fd)

\* Mutant: the state goes back to Reading, the parser and the request stay.
reset_client_state(c) == [c EXCEPT !.state = "Reading", !.response = <<>>, !.written = 0]

\* The reset of handle_write once the response is written
reset_client(c) ==
    [c EXCEPT !.state = "Reading", !.response = <<>>, !.written = 0,
              !.parser = HttpParser_new, !.request = HttpRequest_new]

\* Mutant: the connection is closed once its response is written.
on_write_close(s, fd, n) ==
    LET c == s.clients[fd]
    IN  IF c.written + n >= Len(c.response)
        THEN close_client(s, fd)
        ELSE [s EXCEPT !.clients[fd].written = c.written + n]

\* Mutant: after a partial write the offset is the size of that write.
on_write_restart(s, fd, n) ==
    LET c == s.clients[fd]
    IN  IF c.written + n >= Len(c.response)
        THEN [s EXCEPT !.clients[fd] = reset_client(c),
                       !.ops[fd] = {},
                       !.served[fd] = @ + 1,
                       !.answered[fd] = Some(c.response[1].name),
                       !.interest[fd] = "IN"]
        ELSE [s EXCEPT !.clients[fd].written = n]

\* The Ok(n) arm of handle_write
on_write(s, fd, n) ==
    LET c == s.clients[fd]
    IN  IF c.written + n >= Len(c.response)
        THEN [s EXCEPT !.clients[fd] = reset_client(c),
                       !.ops[fd] = {},
                       !.served[fd] = @ + 1,
                       !.answered[fd] = Some(c.response[1].name),
                       !.interest[fd] = "IN"]
        ELSE [s EXCEPT !.clients[fd].written = c.written + n]

\* client.stream.write(&response[*written..]) returning Ok(n): the socket
\* takes the first n bytes of the slice it is given; outq is what it has
\* taken of the response in progress
socket_write(s, fd, n) ==
    [s EXCEPT !.sock[fd].outq =
                  @ \o SubSeq(s.clients[fd].response, s.clients[fd].written + 1,
                              s.clients[fd].written + n)]

\* Once the client has left the Writing state no response is in progress.
response_out(s, fd) ==
    IF fd \in DOMAIN s.clients /\ s.clients[fd].state # "Writing"
    THEN [s EXCEPT !.sock[fd].outq = <<>>]
    ELSE s

\* Server::handle_write followed by run's close_client on Err; w is the result
\* of the socket write: "block", "zero", "error" or "ok" with the number of
\* bytes taken
handle_write(s, fd, w) ==
    LET s0 == touch(s, fd)
        s1 == [s0 EXCEPT !.io = Io(fd, "write", w.kind, w.n)]
    IN  IF s.clients[fd].state # "Writing" THEN [s0 EXCEPT !.io = Io(fd, "none", "none", 0)]
        ELSE IF w.kind = "block" THEN s1
        ELSE IF w.kind \in {"zero", "error"} THEN close_client(s1, fd)
        ELSE response_out(on_write(socket_write(s1, fd, w.n), fd, w.n), fd)

(***************************************************************************)
(* The parse harness: one valid request, fed to parse in pieces.           *)
(***************************************************************************)
S_HTTP11 == <<"H","T","T","P","/","1",".","1">>
S_Host == <<"H","o","s","t">>
S_Transfer_Encoding ==
    <<"T","r","a","n","s","f","e","r","-","E","n","c","o","d","i","n","g">>

RequestLine(method, uri) == method \o SP \o uri \o SP \o S_HTTP11 \o CRLF
HeaderLine(name, value) == name \o <<":", " ">> \o value \o CRLF

BodyBytes == {CR, LF}

RECURSIVE SeqsUpTo(_, _)
SeqsUpTo(S, n) ==
    IF n = 0 THEN {<<>>}
    ELSE LET shorter == SeqsUpTo(S, n - 1)
         IN  shorter \cup {Append(s, x) : s \in {t \in shorter : Len(t) = n - 1}, x \in S}

Bodies == SeqsUpTo(BodyBytes, MaxBodyLen)

\* The body b sent as at most two chunks, cut after its first `cut` bytes; a
\* first chunk of one byte carries a chunk extension.
\* One chunk on the wire: <hex size>[;extension] CRLF <data> CRLF
Chunk(data, ext) ==
    <<HexLower[Len(data) + 1]>> \o (IF ext THEN <<";", "x">> ELSE <<>>) \o CRLF
        \o data \o CRLF

LastChunk == <<"0">> \o CRLF \o CRLF

NoBodyRequests ==
    {RequestLine(S_GET, <<"/">>) \o HeaderLine(S_Host, <<"x">>) \o CRLF}

FixedRequests ==
    {RequestLine(S_POST, <<"/", "u">>)
        \o HeaderLine(S_Content_Length, to_string(Len(b))) \o CRLF \o b : b \in Bodies}

ChunkedOf(b) ==
    {RequestLine(S_POST, <<"/", "u">>)
        \o HeaderLine(S_Transfer_Encoding, S_chunked) \o CRLF
        \o (IF cut = 0 THEN <<>> ELSE Chunk(SubSeq(b, 1, cut), cut = 1))
        \o (IF cut = Len(b) THEN <<>> ELSE Chunk(SubSeq(b, cut + 1, Len(b)), FALSE))
        \o LastChunk
      : cut \in 0..Len(b)}

\* The chunked bodies: the prefixes of CR LF CR LF ...
ChunkedBodies ==
    {[i \in 1..k |-> IF i % 2 = 1 THEN CR ELSE LF] : k \in 0..MaxBodyLen}

ChunkedRequests == UNION {ChunkedOf(b) : b \in ChunkedBodies}

ValidRequests == NoBodyRequests \cup FixedRequests \cup ChunkedRequests

\* The accept and CGI harnesses are not running.
IdleHarness ==
    /\ aservers = <<>> /\ alistener = 0 /\ aclient = None
    /\ cgienv = None /\ cgiwire = None
    /\ dcase = None /\ dout = None
    /\ reactor = None
    /\ runloop = None /\ pipes = None /\ cgispawn = None

\* The server is not running under the parse and route harnesses.
IdleServer ==
    /\ clients = <<>> /\ idle = <<>> /\ ops = <<>> /\ served = <<>> /\ sock = <<>>
    /\ answered = <<>> /\ io = NoIo
    /\ interest = <<>> /\ pending = <<>> /\ fs = <<>> /\ sessions = {}
    /\ batch = <<>> /\ naccepts = 0 /\ nrequests = 0

\* What parse makes of the whole stream given in a single call.
ParseWhole(bytes) == parse(HttpParser_new, bytes, HttpRequest_new)

InitParse ==
    /\ mode = "parse"
    /\ input \in ValidRequests
    /\ fed = 0
    /\ parser = HttpParser_new
    /\ request = HttpRequest_new
    /\ perr = ""
    /\ calls = 0
    /\ ruri = <<>> /\ rroutes = <<>> /\ rresult = [done |-> FALSE, route |-> None]
    /\ IdleHarness
    /\ IdleServer

\* One call of parse with the next n bytes of the stream.
Feed ==
    /\ mode = "parse"
    /\ perr = ""
    /\ \E n \in 1..(Len(input) - fed) :
         \E res \in {parse(parser, SubSeq(input, fed + 1, fed + n), request)} :
             /\ fed' = fed + n
             /\ parser' = res.p
             /\ request' = res.r
             /\ perr' = res.err
    /\ calls' = Min(calls + 1, 2)
    /\ UNCHANGED <<mode, input, rvars, hvars, svars>>

vars == <<mode, pvars, rvars, hvars, svars>>

NextParse == Feed

SpecParse == InitParse /\ [][NextParse]_vars

(***************************************************************************)
(* The route harness: find_route on one URI and one list of routes.        *)
(***************************************************************************)
UriBytes == {"/", "a", "?"}
Uris == SeqsUpTo(UriBytes, MaxUriLen) \ {<<>>}

\* Route paths; `location {` gives the empty path (config.rs, parse_location).
RoutePaths == {<<>>, <<"/">>, <<"/", "a">>, <<"/", "a", "/">>, <<"a">>}

RouteLists == {[i \in 1..Len(ps) |-> Route_default(ps[i])] : ps \in SeqsUpTo(RoutePaths, MaxRoutes)}

InitRoute ==
    /\ mode = "route"
    /\ ruri \in Uris
    /\ rroutes \in RouteLists
    /\ rresult = [done |-> FALSE, route |-> None]
    /\ input = <<>> /\ fed = 0 /\ parser = HttpParser_new /\ request = HttpRequest_new
    /\ perr = "" /\ calls = 0
    /\ IdleHarness
    /\ IdleServer

FindRoute ==
    /\ mode = "route"
    /\ ~rresult.done
    /\ rresult' = [done |-> TRUE, route |-> find_route(ruri, rroutes)]
    /\ UNCHANGED <<mode, pvars, ruri, rroutes, hvars, svars>>

NextRoute == FindRoute

SpecRoute == InitRoute /\ [][NextRoute]_vars

\* The routes whose path is a prefix of the query-stripped URI path.
PrefixRoutes(uri, routes) ==
    {i \in 1..Len(routes) : starts_with(UriPath(uri), routes[i].path)}

\* The first-declared route among those with the longest prefix.
LongestPrefixRoute(uri, routes) ==
    LET P == PrefixRoutes(uri, routes)
    IN  CHOOSE i \in P :
            \A j \in P : \/ Len(routes[j].path) < Len(routes[i].path)
                         \/ (Len(routes[j].path) = Len(routes[i].path) /\ i <= j)

(***************************************************************************)
(* The accept harness: accept_connection on one listener of a              *)
(* configuration of several servers.  Server::new binds listener i to      *)
(* host:port of server i; Config::parse rejects a configuration in which   *)
(* two servers have the same host:port.                                    *)
(***************************************************************************)
Hosts == {"127.0.0.1", "127.0.0.2"}
Ports == {8080, 8081}

ServerAt(addr) == [ServerConfig_1 EXCEPT !.host = addr[1], !.port = addr[2]]

\* The lists of at most MaxServers servers with distinct host:port
ConfigLists ==
    {[i \in 1..Len(addrs) |-> ServerAt(addrs[i])] :
        addrs \in {a \in SeqsUpTo(Hosts \X Ports, MaxServers) :
                     /\ a # <<>>
                     /\ \A i, j \in 1..Len(a) : i # j => a[i] # a[j]}}

InitAccept ==
    /\ mode = "accept"
    /\ aservers \in ConfigLists
    /\ alistener \in 1..Len(aservers)
    /\ aclient = None
    /\ cgienv = None /\ cgiwire = None
    /\ dcase = None /\ dout = None
    /\ reactor = None
    /\ runloop = None /\ pipes = None /\ cgispawn = None
    /\ input = <<>> /\ fed = 0 /\ parser = HttpParser_new /\ request = HttpRequest_new
    /\ perr = "" /\ calls = 0
    /\ ruri = <<>> /\ rroutes = <<>> /\ rresult = [done |-> FALSE, route |-> None]
    /\ IdleServer

\* accept_connection takes the connection waiting on the listener.
Accept ==
    /\ mode = "accept"
    /\ aclient = None
    /\ aclient' = Some(Client_of(find_server_config_in(aservers, alistener)))
    /\ UNCHANGED <<mode, pvars, rvars, aservers, alistener, cgienv, cgiwire, dcase, dout,
                   reactor, runloop, pipes, cgispawn, svars>>

NextAccept == Accept

SpecAccept == InitAccept /\ [][NextAccept]_vars

(***************************************************************************)
(* The CGI harness: one GET of the script /a/x.c, answered from what the   *)
(* child wrote to its stdout.  The outputs are CGI/1.1 responses: at least *)
(* one header line, a blank line, the body; the child ends its lines with  *)
(* CRLF or with LF.                                                        *)
(***************************************************************************)
CgiStatusLines ==
    {<<>>,
     <<<<"S","t","a","t","u","s",":"," ","2","0","1"," ","C","r","e","a","t","e","d">>>>,
     <<<<"S","t","a","t","u","s",":"," ","4","0","4">>>>,
     <<<<"s","t","a","t","u","s",":","2","0","2"," ","A","c","c","e","p","t","e","d">>>>}

CgiTypeLines == {<<>>, <<<<"C","o","n","t","e","n","t","-","T","y","p","e",":"," ","a","p","p","l","i","c","a","t","i","o","n","/","j","s","o","n">>>>}

CgiOtherLines == {<<>>, <<<<"X","-","A",":"," ","b">>>>}

CgiEols == {CRLF, <<LF>>}

CgiBodies ==
    {<<>>, <<"f", "o", "o">>, <<"a">> \o CRLF \o CRLF \o <<"b">>, <<"a", LF, LF, "b">>}

RECURSIVE JoinLines(_, _)
JoinLines(ls, eol) ==
    IF ls = <<>> THEN <<>> ELSE Head(ls) \o eol \o JoinLines(Tail(ls), eol)

CgiHeaderBlocks ==
    {b \in {s \o t \o o : s \in CgiStatusLines, t \in CgiTypeLines, o \in CgiOtherLines} :
        b # <<>>}

\* The last two have no blank line
CgiResponses ==
    {JoinLines(b, eol) \o eol \o body :
        b \in CgiHeaderBlocks, eol \in CgiEols, body \in CgiBodies}
    \cup {<<"h", "i">>, <<"X", "-", "A", ":", " ", "b">> \o CRLF \o <<"f", "o", "o">>}

CgiRequest ==
    [HttpRequest_new EXCEPT !.method = S_GET,
                            !.uri = <<"/", "a", "/", "x", ".", "c">>,
                            !.version = S_HTTP11,
                            !.complete = TRUE]

InitCgi ==
    /\ mode = "cgi"
    /\ cgienv \in {Some([cgi |-> Child(TRUE, TRUE, TRUE, o, <<>>), io_ok |-> TRUE,
                           secs |-> 0]) : o \in CgiResponses}
    /\ cgiwire = None
    /\ dcase = None /\ dout = None
    /\ reactor = None
    /\ runloop = None /\ pipes = None /\ cgispawn = None
    /\ aservers = <<>> /\ alistener = 0 /\ aclient = None
    /\ input = <<>> /\ fed = 0 /\ parser = HttpParser_new /\ request = HttpRequest_new
    /\ perr = "" /\ calls = 0
    /\ ruri = <<>> /\ rroutes = <<>> /\ rresult = [done |-> FALSE, route |-> None]
    /\ IdleServer

\* process_request on the script's request, then send_response's cookie and
\* to_bytes.
RunCgi ==
    /\ mode = "cgi"
    /\ cgienv # None /\ cgiwire = None
    /\ cgiwire' = Some(to_bytes(
           session_cookie(CgiRequest, {},
                          process_request(CgiRequest, ServerConfig_1, InitialFs,
                                          cgienv[1]).response).response))
    /\ UNCHANGED <<mode, pvars, rvars, aservers, alistener, aclient, cgienv, dcase, dout,
                   reactor, runloop, pipes, cgispawn, svars>>

NextCgi == RunCgi

SpecCgi == InitCgi /\ [][NextCgi]_vars

(***************************************************************************)
(* The dispatch harness: process_request and send_response on one request, *)
(* under a server with the one route                                       *)
(*   location / { root d; index ...; autoindex ...; cgi_extension ...;     *)
(*                upload_dir u; }                                          *)
(* and a disk whose directory d holds some of i, j, a and x.c, each a file *)
(* or a directory, and x.c/i.                                              *)
(***************************************************************************)
P_d == <<"d">>
P_i == <<"d", "/", "i">>
P_j == <<"d", "/", "j">>
P_a == <<"d", "/", "a">>
P_x == <<"d", "/", "x", ".", "c">>
P_xi == <<"d", "/", "x", ".", "c", "/", "i">>

DiskPaths == {P_i, P_j, P_a, P_x, P_xi}

\* What each path may be
DiskKinds(p) == IF p \in {P_i, P_x} THEN {"none", "file", "dir"} ELSE {"none", "file"}

DiskChoices ==
    {k \in [DiskPaths -> {"none", "file", "dir"}] :
        /\ \A p \in DiskPaths : k[p] \in DiskKinds(p)
        /\ k[P_xi] # "none" => k[P_x] = "dir"}

\* The disk of a choice; the content of a file is its own path
DiskOf(k) ==
    [p \in {P_d} \cup {q \in DiskPaths : k[q] # "none"} |->
        IF p = P_d THEN FsDir
        ELSE IF k[p] = "dir" THEN FsDir ELSE FsFile(p)]

DispatchDisks == {DiskOf(k) : k \in DiskChoices}

PostDisks ==
    {DiskOf(k) : k \in {c \in DiskChoices : \A p \in DiskPaths \ {P_x} : c[p] = "none"}}

DispatchRoutes ==
    {[Route_default(<<"/">>) EXCEPT !.root = Some(P_d),
                                    !.index = ix,
                                    !.autoindex = au,
                                    !.cgi_extension = ext,
                                    !.upload_dir = Some(<<"u">>)]
        : ix \in {<<<<"i">>>>, <<<<"i">>, <<"j">>>>, <<<<"j">>, <<"i">>>>},
          au \in BOOLEAN,
          ext \in {None, Some(<<".", "c">>)}}

DispatchConfig(route) == [ServerConfig_1 EXCEPT !.routes = <<route>>]

\* The request the parser hands over
ParsedRequest(method, uri, headers, body) ==
    [HttpRequest_new EXCEPT !.method = method, !.uri = uri, !.version = S_HTTP11,
                            !.headers = headers, !.body = body, !.complete = TRUE]

GetRequests ==
    {ParsedRequest(S_GET, u, EmptyMap, <<>>)
        : u \in {<<"/">>, <<"/", "?", "q">>, <<"/", "x", ".", "c">>}}

\* No Content-Type, one that is not multipart, multipart with and without a
\* boundary, and multipart in other letter case
PostHeaders ==
    {EmptyMap}
    \cup {MapInsert(EmptyMap, S_content_type, v)
            : v \in {<<"t", "e", "x", "t">>,
                     S_multipart \o <<";", " ">> \o S_boundary \o <<"b">>,
                     S_multipart,
                     <<"M">> \o Tail(S_multipart) \o <<";", " ">> \o S_boundary \o <<"b">>}}

PostRequests ==
    {ParsedRequest(S_POST, u, h, b)
        : u \in {<<"/", "a">>, <<"/", "x", ".", "c">>, <<"/", "x", ".", "c", "?", "q">>},
          h \in PostHeaders,
          b \in {<<>>, <<"b">>}}

\* The child succeeds; io_ok is whether read_dir and std::fs::write succeed
DispatchEnvs ==
    {[cgi |-> Child(TRUE, TRUE, TRUE, <<"h", "i">>, <<>>), io_ok |-> ok, secs |-> 0]
        : ok \in BOOLEAN}

DispatchCase(req, route, disk, env) ==
    [req |-> req, route |-> route, disk |-> disk, env |-> env]

DispatchCases ==
    {DispatchCase(req, route, disk, env)
        : req \in GetRequests, route \in DispatchRoutes, disk \in DispatchDisks,
          env \in DispatchEnvs}
    \cup {DispatchCase(req, route, disk, env)
            : req \in PostRequests, route \in DispatchRoutes, disk \in PostDisks,
              env \in DispatchEnvs}

InitDispatch ==
    /\ mode = "dispatch"
    /\ dcase \in {Some(c) : c \in DispatchCases}
    /\ dout = None
    /\ reactor = None
    /\ runloop = None /\ pipes = None /\ cgispawn = None
    /\ cgienv = None /\ cgiwire = None
    /\ aservers = <<>> /\ alistener = 0 /\ aclient = None
    /\ input = <<>> /\ fed = 0 /\ parser = HttpParser_new /\ request = HttpRequest_new
    /\ perr = "" /\ calls = 0
    /\ ruri = <<>> /\ rroutes = <<>> /\ rresult = [done |-> FALSE, route |-> None]
    /\ IdleServer

\* process_request on the case, its response as send_response queues it
Dispatch ==
    /\ mode = "dispatch"
    /\ dcase # None /\ dout = None
    /\ \E out \in {process_request(dcase[1].req, DispatchConfig(dcase[1].route),
                                   dcase[1].disk, dcase[1].env)} :
         dout' = Some([out EXCEPT !.response =
                          session_cookie(dcase[1].req, {}, out.response).response])
    /\ UNCHANGED <<mode, pvars, rvars, aservers, alistener, aclient, cgienv, cgiwire, dcase,
                   reactor, runloop, pipes, cgispawn, svars>>

NextDispatch == Dispatch

SpecDispatch == InitDispatch /\ [][NextDispatch]_vars

(***************************************************************************)
(* epoll_handler.rs: the reactor, in its two builds.  The harness makes    *)
(* the same calls on both: add, modify and delete, on two descriptors,     *)
(* with the interests the server uses (EPOLLIN, EPOLLOUT) and with both.   *)
(***************************************************************************)
MaxReactorCalls == 4

ReactorFds == {1, 2}
Interests == {{"IN"}, {"OUT"}, {"IN", "OUT"}}

\* Linux: the interest list of the epoll instance, descriptor -> epoll_event.
\* EPOLL_CTL_ADD fails on a registered descriptor (EEXIST), EPOLL_CTL_MOD and
\* EPOLL_CTL_DEL on one that is not (ENOENT); a failed call changes nothing.
Epoll_add(ep, fd, events, data) ==
    IF fd \in DOMAIN ep THEN ep
    ELSE MapInsert(ep, fd, [events |-> events, u64 |-> data])

Epoll_modify(ep, fd, events, data) ==
    IF fd \notin DOMAIN ep THEN ep
    ELSE MapInsert(ep, fd, [events |-> events, u64 |-> data])

Epoll_delete(ep, fd) == [x \in DOMAIN ep \ {fd} |-> ep[x]]

\* BSD: the kevents of the kqueue, each known by (ident, filter).  EV_ADD of
\* a kevent that is there replaces its udata; EV_DELETE of one that is not
\* fails (ENOENT), and delete does not look at the result.
Kevent(ident, filter, udata) == [ident |-> ident, filter |-> filter, udata |-> udata]

Kqueue_add(kq, fd, events, data) ==
    LET filter == IF "IN" \in events THEN "EVFILT_READ" ELSE "EVFILT_WRITE"
    IN  {k \in kq : ~(k.ident = fd /\ k.filter = filter)} \cup {Kevent(fd, filter, data)}

Kqueue_delete(kq, fd) == {k \in kq : ~(k.ident = fd /\ k.filter = "EVFILT_READ")}

Kqueue_modify(kq, fd, events, data) == Kqueue_add(Kqueue_delete(kq, fd), fd, events, data)

\* What wait can report for fd: epoll_wait reports the kinds of the
\* registered events, kevent the filters, translated by wait
Epoll_reports(ep, fd) == IF fd \in DOMAIN ep THEN ep[fd].events ELSE {}

Kqueue_reports(kq, fd) ==
    {IF k.filter = "EVFILT_READ" THEN "IN" ELSE "OUT" : k \in {x \in kq : x.ident = fd}}

ReactorCall(op, fd, events) == [op |-> op, fd |-> fd, events |-> events]

InitReactor ==
    /\ mode = "reactor"
    /\ reactor = Some([epoll |-> EmptyMap, kqueue |-> {}, calls |-> <<>>])
    /\ runloop = None /\ pipes = None /\ cgispawn = None
    /\ dcase = None /\ dout = None
    /\ cgienv = None /\ cgiwire = None
    /\ aservers = <<>> /\ alistener = 0 /\ aclient = None
    /\ input = <<>> /\ fed = 0 /\ parser = HttpParser_new /\ request = HttpRequest_new
    /\ perr = "" /\ calls = 0
    /\ ruri = <<>> /\ rroutes = <<>> /\ rresult = [done |-> FALSE, route |-> None]
    /\ IdleServer

ReactorCanCall == mode = "reactor" /\ reactor # None /\ Len(reactor[1].calls) < MaxReactorCalls

ReactorUnchanged ==
    UNCHANGED <<mode, pvars, rvars, aservers, alistener, aclient, cgienv, cgiwire, dcase, dout,
                runloop, pipes, cgispawn, svars>>

\* epoll.add(fd, events, fd as u64)
ReactorAdd ==
    /\ ReactorCanCall
    /\ \E fd \in ReactorFds, events \in Interests :
         reactor' = Some([epoll |-> Epoll_add(reactor[1].epoll, fd, events, fd),
                          kqueue |-> Kqueue_add(reactor[1].kqueue, fd, events, fd),
                          calls |-> Append(reactor[1].calls, ReactorCall("add", fd, events))])
    /\ ReactorUnchanged

\* epoll.modify(fd, events, fd as u64)
ReactorModify ==
    /\ ReactorCanCall
    /\ \E fd \in ReactorFds, events \in Interests :
         reactor' = Some([epoll |-> Epoll_modify(reactor[1].epoll, fd, events, fd),
                          kqueue |-> Kqueue_modify(reactor[1].kqueue, fd, events, fd),
                          calls |-> Append(reactor[1].calls,
                                           ReactorCall("modify", fd, events))])
    /\ ReactorUnchanged

\* epoll.delete(fd)
ReactorDelete ==
    /\ ReactorCanCall
    /\ \E fd \in ReactorFds :
         reactor' = Some([epoll |-> Epoll_delete(reactor[1].epoll, fd),
                          kqueue |-> Kqueue_delete(reactor[1].kqueue, fd),
                          calls |-> Append(reactor[1].calls, ReactorCall("delete", fd, {}))])
    /\ ReactorUnchanged

NextReactor == ReactorAdd \/ ReactorModify \/ ReactorDelete

SpecReactor == InitReactor /\ [][NextReactor]_vars

(***************************************************************************)
(* The loop of run with the calls that can fail.  The harness gives each   *)
(* iteration the result of epoll.wait and, for a listener event, the       *)
(* results of the calls accept_connection makes: accept, set_nonblocking   *)
(* and epoll.add; a client event comes with the result of its handler.     *)
(***************************************************************************)
MaxLoopIters == 3

LoopListeners == {1}
LoopFds == 2..4

\* What one turn of the loop of accept_connection meets: a stream accepted
\* and registered, no stream left, or the failure of one of the three calls
AcceptResults == {"ok", "WouldBlock", "accept", "set_nonblocking", "epoll.add"}

\* The turns of one accept_connection call: streams accepted, then the end
AcceptTurns ==
    {<<last>> : last \in AcceptResults \ {"ok"}}
    \cup {<<"ok", last>> : last \in AcceptResults \ {"ok"}}

LoopEvent(fd, turns, handler_ok) == [fd |-> fd, turns |-> turns, handler_ok |-> handler_ok]

ListenerEvents == {LoopEvent(l, t, TRUE) : l \in LoopListeners, t \in AcceptTurns}

ClientEvents(fds) == {LoopEvent(fd, <<>>, ok) : fd \in fds, ok \in BOOLEAN}

\* The event lists epoll.wait may return: at most one event per descriptor
LoopEventLists(fds) ==
    {<<>>}
    \cup {<<e>> : e \in ListenerEvents \cup ClientEvents(fds)}
    \cup {<<l, c>> : l \in ListenerEvents, c \in ClientEvents(fds)}
    \cup {<<c, l>> : l \in ListenerEvents, c \in ClientEvents(fds)}

LowestFree(table) == CHOOSE fd \in LoopFds \ table : \A x \in LoopFds \ table : fd <= x

\* Server::accept_connection: the table after the call and the error it
\* returned ("" for Ok); a stream whose set_nonblocking or epoll.add fails
\* is dropped, and the error is returned.
RECURSIVE accept_connection(_, _)
accept_connection(table, turns) ==
    IF Head(turns) = "WouldBlock" THEN [table |-> table, err |-> ""]
    ELSE IF Head(turns) = "ok" /\ LoopFds \ table # {}
         THEN accept_connection(table \cup {LowestFree(table)}, Tail(turns))
    ELSE IF Head(turns) = "ok" THEN [table |-> table, err |-> ""]
    ELSE [table |-> table, err |-> Head(turns)]

\* The for loop of run over the events: a listener event calls
\* accept_connection and returns its error; a client event whose handler
\* fails closes that client.
RECURSIVE run_events(_, _)
run_events(table, evs) ==
    IF evs = <<>> THEN [table |-> table, err |-> ""]
    ELSE IF Head(evs).fd \in LoopListeners
         THEN LET res == accept_connection(table, Head(evs).turns)
              IN  IF res.err # "" THEN res ELSE run_events(res.table, Tail(evs))
    ELSE IF Head(evs).fd \in table /\ ~Head(evs).handler_ok
         THEN run_events(table \ {Head(evs).fd}, Tail(evs))
    ELSE run_events(table, Tail(evs))

WaitResults == {"events", "Interrupted", "error"}

Loop(table, iters, returned, wait, events) ==
    [table |-> table, iters |-> iters, returned |-> returned, wait |-> wait, events |-> events]

InitLoop ==
    /\ mode = "loop"
    /\ runloop = Some(Loop({}, 0, None, "", <<>>))
    /\ pipes = None /\ cgispawn = None
    /\ reactor = None
    /\ dcase = None /\ dout = None
    /\ cgienv = None /\ cgiwire = None
    /\ aservers = <<>> /\ alistener = 0 /\ aclient = None
    /\ input = <<>> /\ fed = 0 /\ parser = HttpParser_new /\ request = HttpRequest_new
    /\ perr = "" /\ calls = 0
    /\ ruri = <<>> /\ rroutes = <<>> /\ rresult = [done |-> FALSE, route |-> None]
    /\ IdleServer

\* One iteration of the loop of Server::run, until run returns
RunIteration ==
    /\ mode = "loop"
    /\ runloop # None
    /\ runloop[1].returned = None
    /\ runloop[1].iters < MaxLoopIters
    /\ \E w \in WaitResults, evs \in LoopEventLists(runloop[1].table) :
         /\ w # "events" => evs = <<>>
         /\ \E res \in {run_events(runloop[1].table, evs)} :
              runloop' = Some(Loop(res.table, runloop[1].iters + 1,
                                   IF w = "error" THEN Some("epoll.wait")
                                   ELSE IF res.err # "" THEN Some(res.err) ELSE None,
                                   w, evs))
    /\ UNCHANGED <<mode, pvars, rvars, aservers, alistener, aclient, cgienv, cgiwire, dcase, dout,
                   reactor, pipes, cgispawn, svars>>

NextLoop == RunIteration

SpecLoop == InitLoop /\ [][NextLoop]_vars

(***************************************************************************)
(* CgiHandler::execute and its child, as two processes joined by pipes.    *)
(* The kernel holds at most PipeCap bytes in a pipe: a write to a full     *)
(* pipe blocks, a read from an empty pipe blocks until the write end is    *)
(* closed.  The child writes some bytes of output, reads its stdin to the  *)
(* end, writes the rest of its output and exits; it writes to stdout or to *)
(* stderr, which wait_with_output reads together.                          *)
(***************************************************************************)
PipeCap == 2
MaxPipeBody == 3
MaxChildOut == 3

ChildPrograms ==
    {[before |-> b, after |-> a, stream |-> st]
        : b \in 0..MaxChildOut, a \in 0..MaxChildOut, st \in {"stdout", "stderr"}}

\* The exchange after cmd.spawn(): body is what write_all has still to
\* write, stdin and out what the pipes hold, got what wait_with_output has
\* collected, took what the child has read, left what the child has still
\* to write before its next step.
Exchange(body, program) ==
    [pc |-> "write_all", body |-> body, stdin |-> 0, stdin_open |-> TRUE,
     out |-> 0, got |-> 0,
     child |-> program, cpc |-> "before", left |-> program.before, took |-> 0]

InitPipes ==
    /\ mode = "pipes"
    /\ pipes \in {Some(Exchange(b, c)) : b \in 0..MaxPipeBody, c \in ChildPrograms}
    /\ runloop = None /\ cgispawn = None
    /\ reactor = None
    /\ dcase = None /\ dout = None
    /\ cgienv = None /\ cgiwire = None
    /\ aservers = <<>> /\ alistener = 0 /\ aclient = None
    /\ input = <<>> /\ fed = 0 /\ parser = HttpParser_new /\ request = HttpRequest_new
    /\ perr = "" /\ calls = 0
    /\ ruri = <<>> /\ rroutes = <<>> /\ rresult = [done |-> FALSE, route |-> None]
    /\ IdleServer

PipesUnchanged ==
    UNCHANGED <<mode, pvars, rvars, aservers, alistener, aclient, cgienv, cgiwire, dcase, dout,
                reactor, runloop, cgispawn, svars>>

Exchanging == mode = "pipes" /\ pipes # None

\* stdin.write_all(body): the pipe takes what it has room for; when the
\* body is written stdin goes out of scope and is closed.
WriteAll ==
    /\ Exchanging
    /\ pipes[1].pc = "write_all"
    /\ pipes[1].body > 0
    /\ pipes[1].stdin < PipeCap
    /\ \E n \in {Min(pipes[1].body, PipeCap - pipes[1].stdin)} :
         pipes' = Some([pipes[1] EXCEPT !.body = @ - n,
                                        !.stdin = @ + n,
                                        !.stdin_open = pipes[1].body - n > 0,
                                        !.pc = IF pipes[1].body - n > 0 THEN "write_all"
                                               ELSE "wait_with_output"])
    /\ PipesUnchanged

\* An empty body is not written: wait_with_output closes stdin.
EmptyBody ==
    /\ Exchanging
    /\ pipes[1].pc = "write_all"
    /\ pipes[1].body = 0
    /\ pipes' = Some([pipes[1] EXCEPT !.stdin_open = FALSE, !.pc = "wait_with_output"])
    /\ PipesUnchanged

\* child.wait_with_output(): read stdout and stderr to their end, then
\* wait for the child.
WaitWithOutput ==
    /\ Exchanging
    /\ pipes[1].pc = "wait_with_output"
    /\ \/ /\ pipes[1].out > 0
          /\ pipes' = Some([pipes[1] EXCEPT !.got = @ + pipes[1].out, !.out = 0])
       \/ /\ pipes[1].out = 0
          /\ pipes[1].cpc = "exited"
          /\ pipes' = Some([pipes[1] EXCEPT !.pc = "returned"])
    /\ PipesUnchanged

\* The child writes output: the pipe takes what it has room for.
ChildWrite ==
    /\ Exchanging
    /\ pipes[1].cpc \in {"before", "after"}
    /\ pipes[1].left > 0
    /\ pipes[1].out < PipeCap
    /\ \E n \in {Min(pipes[1].left, PipeCap - pipes[1].out)} :
         pipes' = Some([pipes[1] EXCEPT !.left = @ - n, !.out = @ + n])
    /\ PipesUnchanged

\* The child has written what it had to: it turns to its stdin, or exits.
ChildNext ==
    /\ Exchanging
    /\ pipes[1].cpc \in {"before", "after"}
    /\ pipes[1].left = 0
    /\ pipes' = Some([pipes[1] EXCEPT !.cpc = IF @ = "before" THEN "read" ELSE "exited"])
    /\ PipesUnchanged

\* The child reads its stdin: the bytes in the pipe, or the end of input
\* once the pipe is empty and closed.
ChildRead ==
    /\ Exchanging
    /\ pipes[1].cpc = "read"
    /\ \/ /\ pipes[1].stdin > 0
          /\ pipes' = Some([pipes[1] EXCEPT !.took = @ + pipes[1].stdin, !.stdin = 0])
       \/ /\ pipes[1].stdin = 0
          /\ ~pipes[1].stdin_open
          /\ pipes' = Some([pipes[1] EXCEPT !.cpc = "after", !.left = pipes[1].child.after])
    /\ PipesUnchanged

NextPipes == WriteAll \/ EmptyBody \/ WaitWithOutput \/ ChildWrite \/ ChildNext \/ ChildRead

\* The server thread and the child are both scheduled: a step that stays
\* possible is taken.
PipesFairness ==
    /\ WF_vars(WriteAll) /\ WF_vars(EmptyBody) /\ WF_vars(WaitWithOutput)
    /\ WF_vars(ChildWrite) /\ WF_vars(ChildNext) /\ WF_vars(ChildRead)

SpecPipes == InitPipes /\ [][NextPipes]_vars /\ PipesFairness

(***************************************************************************)
(* The command CgiHandler::execute spawns for a request, and the files its *)
(* paths designate.  A directory is the sequence of the names from the     *)
(* root of the filesystem down to it; the server runs in ServerCwd.        *)
(***************************************************************************)
IsName(c) == c \notin {<<>>, <<".">>}

\* The names of a path, without the empty ones and the dots
Components(path) == SelectSeq(SplitAll(path, "/"), IsName)

RECURSIVE Walk(_, _)
Walk(dir, names) ==
    IF names = <<>> THEN dir
    ELSE IF Head(names) = <<".", ".">>
         THEN Walk(IF dir = <<>> THEN dir ELSE SubSeq(dir, 1, Len(dir) - 1), Tail(names))
    ELSE Walk(Append(dir, Head(names)), Tail(names))

\* The file that path designates for a process whose working directory is
\* cwd: an absolute path starts from the root, a relative one from cwd.
Designates(cwd, path) ==
    Walk(IF starts_with(path, <<"/">>) THEN <<>> ELSE cwd, Components(path))

\* Path::new(path).parent().unwrap_or(Path::new(".")) for a path that ends
\* with a file name: the path without its last name
script_dir_of(path) ==
    LET k == rfind(path, "/")
    IN  IF k = None THEN <<>>
        ELSE IF k[1] = 0 THEN <<"/">>
        ELSE Slice(path, 0, k[1])

S_python3 == <<"/", "u", "s", "r", "/", "b", "i", "n", "/", "p", "y", "t", "h", "o", "n", "3">>

\* Command::new(cgi_path).arg(script_path).current_dir(script_dir)
Command(cgi_path, script_path) ==
    [program |-> cgi_path, arg |-> script_path, current_dir |-> script_dir_of(script_path)]

\* execute_cgi's call of CgiHandler::execute for the path handle_get
\* resolved
cgi_command(route, script_path) ==
    Command(IF route.cgi_path # None THEN route.cgi_path[1] ELSE S_python3, script_path)

SpawnRoots ==
    {None, Some(<<".">>), Some(<<".", "/", "w">>), Some(<<"w">>), Some(<<"/", "w">>),
     Some(<<".", "/", "w", "/", "v">>), Some(<<"/", "w", "/", "v">>),
     Some(<<".", ".", "/", "w">>), Some(<<"/">>)}

SpawnUris ==
    {<<"/", "x", ".", "c">>, <<"/", "a", "/", "x", ".", "c">>,
     <<"/", "a", "/", "b", "/", "x", ".", "c">>, <<"/", "b", "/", "x", ".", "c">>}

SpawnRoutes ==
    {[Route_default(path) EXCEPT !.root = root, !.cgi_extension = Some(<<".", "c">>)]
        : path \in {<<"/">>, <<"/", "a">>}, root \in SpawnRoots}

ServerCwds == {<<<<"s">>>>, <<<<"s">>, <<"t">>>>}

InitSpawn ==
    /\ mode = "spawn"
    /\ cgispawn \in {Some([cwd |-> d, route |-> r, uri_path |-> u, command |-> None])
                       : d \in ServerCwds, r \in SpawnRoutes, u \in SpawnUris}
    /\ runloop = None /\ pipes = None
    /\ reactor = None
    /\ dcase = None /\ dout = None
    /\ cgienv = None /\ cgiwire = None
    /\ aservers = <<>> /\ alistener = 0 /\ aclient = None
    /\ input = <<>> /\ fed = 0 /\ parser = HttpParser_new /\ request = HttpRequest_new
    /\ perr = "" /\ calls = 0
    /\ ruri = <<>> /\ rroutes = <<>> /\ rresult = [done |-> FALSE, route |-> None]
    /\ IdleServer

\* The path the server resolved and checked under route.root
SpawnPath == resolve_path(cgispawn[1].uri_path, cgispawn[1].route)

\* handle_get resolves the path and execute_cgi spawns the interpreter
SpawnCgi ==
    /\ mode = "spawn"
    /\ cgispawn # None
    /\ cgispawn[1].command = None
    /\ cgispawn' = Some([cgispawn[1] EXCEPT !.command =
                            Some(cgi_command(cgispawn[1].route, SpawnPath))])
    /\ UNCHANGED <<mode, pvars, rvars, aservers, alistener, aclient, cgienv, cgiwire, dcase, dout,
                   reactor, runloop, pipes, svars>>

NextSpawn == SpawnCgi

SpecSpawn == InitSpawn /\ [][NextSpawn]_vars

(***************************************************************************)
(* The request harness: requests with well-formed and malformed request    *)
(* lines, header blocks of every body mode and bytes after the blank line, *)
(* fed to parse in pieces.  Each request line comes with the tokens and    *)
(* the method it stands for, each header block with the body mode it       *)
(* announces (none, fixed with n, chunked, or a Content-Length that is no  *)
(* number) and whether each of its lines has a colon.                      *)
(***************************************************************************)
GoodLines ==
    {[bytes |-> <<"G", "E", "T", " ", "/", " ", "H", "T", "T", "P", "/", "1", ".", "1">>,
      tokens |-> <<<<"G", "E", "T">>, <<"/">>, <<"H", "T", "T", "P", "/", "1", ".", "1">>>>, method |-> <<"G", "E", "T">>],
     [bytes |-> <<"p", "o", "s", "t", " ", " ", "/", "u", " ", "H", "T", "T", "P", "/", "1", ".", "0">>,
      tokens |-> <<<<"p", "o", "s", "t">>, <<"/", "u">>, <<"H", "T", "T", "P", "/", "1", ".", "0">>>>, method |-> <<"P", "O", "S", "T">>]}

BadLines ==
    {[bytes |-> <<"G", "E", "T", " ", "/">>,
      tokens |-> <<<<"G", "E", "T">>, <<"/">>>>, method |-> <<>>],
     [bytes |-> <<"G", "E", "T", " ", "/", " ", "H", "T", "T", "P", "/", "1", ".", "1", " ", "x">>,
      tokens |-> <<<<"G", "E", "T">>, <<"/">>, <<"H", "T", "T", "P", "/", "1", ".", "1">>, <<"x">>>>, method |-> <<>>],
     [bytes |-> <<>>,
      tokens |-> <<>>, method |-> <<>>]}

HeaderBlocks ==
    {[lines |-> <<>>,
      body |-> "none", n |-> 0, colons |-> TRUE],
     [lines |-> <<<<"H", "o", "s", "t", ":", " ", "x">>>>,
      body |-> "none", n |-> 0, colons |-> TRUE],
     [lines |-> <<<<"H", "o", "s", "t", "x">>>>,
      body |-> "none", n |-> 0, colons |-> FALSE],
     [lines |-> <<<<"C", "o", "n", "t", "e", "n", "t", "-", "L", "e", "n", "g", "t", "h", ":", " ", "0">>>>,
      body |-> "fixed", n |-> 0, colons |-> TRUE],
     [lines |-> <<<<"C", "o", "n", "t", "e", "n", "t", "-", "L", "e", "n", "g", "t", "h", ":", " ", "1">>>>,
      body |-> "fixed", n |-> 1, colons |-> TRUE],
     [lines |-> <<<<"C", "o", "n", "t", "e", "n", "t", "-", "L", "e", "n", "g", "t", "h", ":", " ", "2">>>>,
      body |-> "fixed", n |-> 2, colons |-> TRUE],
     [lines |-> <<<<"C", "o", "n", "t", "e", "n", "t", "-", "L", "e", "n", "g", "t", "h", ":", " ", "3">>>>,
      body |-> "fixed", n |-> 3, colons |-> TRUE],
     [lines |-> <<<<"T", "r", "a", "n", "s", "f", "e", "r", "-", "E", "n", "c", "o", "d", "i", "n", "g", ":", " ", "c", "h", "u", "n", "k", "e", "d">>>>,
      body |-> "chunked", n |-> 0, colons |-> TRUE],
     [lines |-> <<<<"t", "r", "a", "n", "s", "f", "e", "r", "-", "e", "n", "c", "o", "d", "i", "n", "g", ":", " ", "g", "z", "i", "p", ",", " ", "C", "h", "u", "n", "k", "e", "d">>>>,
      body |-> "chunked", n |-> 0, colons |-> TRUE],
     [lines |-> <<<<"C", "o", "n", "t", "e", "n", "t", "-", "L", "e", "n", "g", "t", "h", ":", " ", "1">>, <<"T", "r", "a", "n", "s", "f", "e", "r", "-", "E", "n", "c", "o", "d", "i", "n", "g", ":", " ", "C", "H", "U", "N", "K", "E", "D">>>>,
      body |-> "chunked", n |-> 0, colons |-> TRUE],
     [lines |-> <<<<"T", "r", "a", "n", "s", "f", "e", "r", "-", "E", "n", "c", "o", "d", "i", "n", "g", ":", " ", "c", "h", "u", "n", "k", "e", "d">>, <<"C", "o", "n", "t", "e", "n", "t", "-", "L", "e", "n", "g", "t", "h", ":", " ", "1">>>>,
      body |-> "chunked", n |-> 0, colons |-> TRUE],
     [lines |-> <<<<"C", "o", "n", "t", "e", "n", "t", "-", "L", "e", "n", "g", "t", "h", ":", " ", "x">>>>,
      body |-> "invalid", n |-> 0, colons |-> TRUE],
     [lines |-> <<<<"H", "o", "s", "t", "x">>, <<"C", "o", "n", "t", "e", "n", "t", "-", "L", "e", "n", "g", "t", "h", ":", " ", "1">>>>,
      body |-> "fixed", n |-> 1, colons |-> FALSE]}

\* The bytes after the blank line: none, two bytes, the byte a as one chunk
\* and the last chunk
Tails == {<<>>, <<"a", "b">>, Chunk(<<"a">>, FALSE) \o LastChunk}

MenuRequest(l, h, t) == [line |-> l, block |-> h, tail |-> t]

RequestMenu ==
    {MenuRequest(l, h, t) : l \in GoodLines, h \in HeaderBlocks, t \in Tails}
    \cup {MenuRequest(l, h, <<>>) : l \in BadLines, h \in {b \in HeaderBlocks : b.lines = <<>>}}

\* The bytes of a request of the menu
WireOf(m) == m.line.bytes \o CRLF \o JoinLines(m.block.lines, CRLF) \o CRLF \o m.tail

InitRequests ==
    /\ mode = "parse"
    /\ input \in {WireOf(m) : m \in RequestMenu}
    /\ fed = 0
    /\ parser = HttpParser_new
    /\ request = HttpRequest_new
    /\ perr = ""
    /\ calls = 0
    /\ ruri = <<>> /\ rroutes = <<>> /\ rresult = [done |-> FALSE, route |-> None]
    /\ IdleHarness
    /\ IdleServer

SpecRequests == InitRequests /\ [][NextParse]_vars

(***************************************************************************)
(* The server harness: peers connect, send requests and close; the loop    *)
(* of Server::run waits, sweeps and handles the events of each batch.      *)
(***************************************************************************)
S_PUT == <<"P","U","T">>

Req(method, uri, headers, body) == RequestLine(method, uri) \o headers \o CRLF \o body

MenuMethods == {S_GET, S_POST, S_DELETE, S_PUT}
MenuUris == {<<"/", "a", "/", "f">>, <<"/", "a", "/", "x", ".", "c">>, <<"/", "r">>,
             <<"/", "z">>, <<"/", "g">>}

\* A request with a body of two bytes, over the configured limit of one
BigBody == <<"x", "y">>

S_Cookie == <<"C","o","o","k","i","e">>

\* The Cookie headers a peer may send: the id of the first session and of the
\* second, an id no session has, a cookie of another name, two cookies
CookieHeaders ==
    {S_sessionid \o <<"=", "0">>, S_sessionid \o <<"=", "1">>, S_sessionid \o <<"=", "f">>,
     <<"a", "=", "b">>, <<"a", "=", "b", ";", " ">> \o S_sessionid \o <<"=", "0">>}

\* Requests with a Cookie header: a file, and a URI no route matches
CookieScripts ==
    {<<Req(S_GET, u, HeaderLine(S_Cookie, c), <<>>)>>
        : u \in {<<"/", "a", "/", "f">>, <<"/", "z">>}, c \in CookieHeaders}

\* A GET of the directory w, which has no index file, and an upload
MoreScripts ==
    {<<Req(S_GET, <<"/", "a">>, <<>>, <<>>)>>,
     <<Req(S_POST, <<"/", "a">>,
           HeaderLine(S_Content_Type, S_multipart \o <<";", " ">> \o S_boundary \o <<"b">>),
           <<>>)>>,
     <<Req(S_POST, <<"/", "a", "/", "x", ".", "c">>,
           HeaderLine(S_Content_Length, to_string(1)), <<"b">>)>>}

\* What a peer may send: a sequence of TCP segments.  Every method on every
\* URI, without a body and with a body over the limit; a request line that
\* is malformed; a request cut inside its headers; a chunked request whose
\* final CRLF comes in a segment of its own.
ServerScripts ==
    {<<Req(m, u, <<>>, <<>>)>> : m \in MenuMethods, u \in MenuUris}
    \cup {<<Req(m, u, HeaderLine(S_Content_Length, to_string(Len(BigBody))), BigBody)>>
            : m \in MenuMethods, u \in MenuUris}
    \cup {<<<<"X">> \o CRLF>>}
    \cup {<<RequestLine(S_GET, <<"/", "a", "/", "f">>) \o <<"H", "o">>,
            <<"s", "t", ":", "x">> \o CRLF \o CRLF>>}
    \cup {<<Req(S_POST, <<"/", "a">>, HeaderLine(S_Transfer_Encoding, S_chunked),
                Chunk(<<"x">>, FALSE) \o <<"0">> \o CRLF),
            CRLF>>}

\* Under the clock: a CGI request and a static one.
TimedScripts ==
    {<<Req(S_GET, <<"/", "a", "/", "x", ".", "c">>, <<>>, <<>>)>>,
     <<RequestLine(S_GET, <<"/", "a", "/", "f">>), CRLF>>}

\* Under the fairness conditions: a file, a CGI script and a missing file
\* in one segment, a request cut inside its headers, and a chunked request
\* whose final CRLF comes in a segment of its own.
LiveScripts ==
    {<<Req(S_GET, u, <<>>, <<>>)>>
        : u \in {<<"/", "a", "/", "f">>, <<"/", "a", "/", "x", ".", "c">>, <<"/", "z">>}}
    \cup {<<RequestLine(S_GET, <<"/", "a", "/", "f">>) \o <<"H", "o">>,
            <<"s", "t", ":", "x">> \o CRLF \o CRLF>>}
    \cup {<<Req(S_POST, <<"/", "a">>, HeaderLine(S_Transfer_Encoding, S_chunked),
                Chunk(<<"x">>, FALSE) \o <<"0">> \o CRLF),
            CRLF>>}

Scripts ==
    IF mode = "timed" THEN TimedScripts
    ELSE IF mode = "live" THEN LiveScripts
    ELSE ServerScripts \cup CookieScripts \cup MoreScripts

\* What the child of a CGI request may write when it succeeds
CgiOutputs ==
    {<<"S","t","a","t","u","s",":"," ","2","0","1"," ","C","r","e","a","t","e","d">>
        \o CRLF \o CRLF \o <<"f", "o", "o">>,
     <<"h", "i">>}

S_out == <<"o", "u", "t">>
S_err == <<"e", "r", "r">>

\* The children that fail: one that cannot be spawned, one whose stdin is
\* closed, one that exits with a non-zero status after writing to stdout and
\* stderr
FailingChildren ==
    {Child(FALSE, TRUE, TRUE, <<>>, <<>>),
     Child(TRUE, FALSE, TRUE, S_out, S_err),
     Child(TRUE, TRUE, FALSE, S_out, S_err)}

CgiSecs == IF mode = "timed" THEN 0..MaxCgiSecs ELSE {0}

Envs ==
    {[cgi |-> Child(TRUE, TRUE, TRUE, o, <<>>), io_ok |-> TRUE, secs |-> d]
        : o \in CgiOutputs, d \in CgiSecs}
    \cup {[cgi |-> c, io_ok |-> FALSE, secs |-> d]
            : c \in IF mode = "timed" THEN {Child(FALSE, TRUE, TRUE, <<>>, <<>>)}
                    ELSE FailingChildren,
              d \in CgiSecs}

\* How long epoll.wait may block
WaitSecs == IF mode = "timed" THEN 0..WAIT_TIMEOUT ELSE {0}

InitHarnesses ==
    /\ input = <<>> /\ fed = 0 /\ parser = HttpParser_new /\ request = HttpRequest_new
    /\ perr = "" /\ calls = 0
    /\ ruri = <<>> /\ rroutes = <<>> /\ rresult = [done |-> FALSE, route |-> None]
    /\ IdleHarness

InitServer ==
    /\ clients = <<>> /\ idle = <<>> /\ ops = <<>> /\ served = <<>> /\ sock = <<>>
    /\ answered = <<>> /\ io = NoIo
    /\ interest = [l \in Listeners |-> "IN"]
    /\ pending = [l \in Listeners |-> 0]
    /\ fs = InitialFs
    /\ sessions = {}
    /\ batch = <<>>
    /\ naccepts = 0 /\ nrequests = 0

Init == mode = "server" /\ InitHarnesses /\ InitServer

InitTimed == mode = "timed" /\ InitHarnesses /\ InitServer

InitLive == mode = "live" /\ InitHarnesses /\ InitServer

ServerMode == mode \in {"server", "timed", "live"}

\* The server state after a handler
Becomes(s) ==
    /\ clients' = s.clients /\ idle' = s.idle /\ ops' = s.ops /\ served' = s.served
    /\ answered' = s.answered /\ io' = s.io
    /\ interest' = s.interest /\ sock' = s.sock /\ fs' = s.fs
    /\ sessions' = s.sessions

\* A peer completes a connection to listener l; it waits to be accepted.
Connect ==
    /\ ServerMode
    /\ naccepts < MaxAccepts
    /\ \E l \in Listeners :
         /\ Cardinality(DOMAIN clients) + pending[l] < Cardinality(ClientFds)
         /\ pending' = [pending EXCEPT ![l] = @ + 1]
    /\ naccepts' = naccepts + 1
    /\ UNCHANGED <<mode, pvars, rvars, hvars, clients, idle, ops, served, answered, io, interest,
                   sock, fs, sessions,
                   batch, nrequests>>

\* The peer of fd sends a request: its first segment arrives.
PeerRequest ==
    /\ ServerMode
    /\ nrequests < (IF mode = "timed" THEN MaxTimedRequests ELSE MaxRequests)
    /\ \E fd \in DOMAIN sock, script \in Scripts :
         /\ sock[fd].peer = "open"
         /\ sock[fd].tosend = <<>>
         /\ sock' = [sock EXCEPT ![fd].inq = @ \o Head(script),
                                 ![fd].tosend = Tail(script)]
    /\ nrequests' = nrequests + 1
    /\ UNCHANGED <<mode, pvars, rvars, hvars, clients, idle, ops, served, answered, io, interest,
                   pending, fs, sessions,
                   batch, naccepts>>

\* The next segment of the request arrives.
PeerSegment ==
    /\ ServerMode
    /\ \E fd \in DOMAIN sock :
         /\ sock[fd].peer = "open"
         /\ sock[fd].tosend # <<>>
         /\ sock' = [sock EXCEPT ![fd].inq = @ \o Head(sock[fd].tosend),
                                 ![fd].tosend = Tail(@)]
    /\ UNCHANGED <<mode, pvars, rvars, hvars, clients, idle, ops, served, answered, io, interest,
                   pending, fs, sessions,
                   batch, naccepts, nrequests>>

\* Under the clock peers close in order and every socket is writable.
PeerCloses == IF mode = "timed" THEN {"closed"} ELSE {"closed", "reset"}

Writable(out) == IF mode = "timed" THEN {out} ELSE SUBSET out

\* The peer closes its end (FIN) or aborts the connection (RST); the abort
\* flushes what the server has not read.
PeerClose ==
    /\ ServerMode
    /\ \E fd \in DOMAIN sock, how \in PeerCloses :
         /\ sock[fd].peer = "open"
         /\ sock[fd].tosend = <<>>
         /\ sock' = [sock EXCEPT ![fd].peer = how,
                                 ![fd].inq = IF how = "reset" THEN <<>> ELSE @]
    /\ UNCHANGED <<mode, pvars, rvars, hvars, clients, idle, ops, served, answered, io, interest,
                   pending, fs, sessions,
                   batch, naccepts, nrequests>>

\* The events a level-triggered epoll holds ready; W is the set of
\* connections whose socket can take bytes now.
ReadyEvent(s, fd, W) ==
    LET k == s.sock[fd]
        err == IF k.peer = "reset" THEN {"ERR", "HUP"} ELSE {}
    IN  IF s.interest[fd] = "IN"
        THEN IF k.inq # <<>> \/ k.peer # "open" THEN {"IN"} \cup err ELSE err
        ELSE IF fd \in W \/ k.peer = "reset" THEN {"OUT"} \cup err ELSE err

ReadyEvents(s, W) ==
    {[fd |-> l, flags |-> {"IN"}] : l \in {x \in Listeners : pending[x] > 0}}
    \cup {[fd |-> fd, flags |-> ReadyEvent(s, fd, W)]
            : fd \in {x \in DOMAIN s.clients : ReadyEvent(s, x, W) # {}}}

\* The orders in which the kernel may deliver a set of events
RECURSIVE Orders(_)
Orders(S) ==
    IF S = {} THEN {<<>>}
    ELSE UNION {{<<e>> \o rest : rest \in Orders(S \ {e})} : e \in S}

\* The head of one iteration of run: epoll.wait returns after d seconds with
\* the ready events (after the full timeout when none is ready), then
\* check_timeouts sweeps the table.
Wait ==
    /\ ServerMode
    /\ batch = <<>>
    /\ \E d \in WaitSecs, W \in Writable({fd \in DOMAIN clients : interest[fd] = "OUT"}) :
         LET ready == ReadyEvents(State, W)
         IN  /\ (mode = "timed" /\ ready = {}) => d = WAIT_TIMEOUT
             /\ batch' \in Orders(ready)
             /\ \E s \in {check_timeouts(elapse(State, d))} : Becomes([s EXCEPT !.io = NoIo])
    /\ UNCHANGED <<mode, pvars, rvars, hvars, pending, naccepts, nrequests>>

Event == Head(batch)

\* The lowest free descriptor
FreeFd(s) == CHOOSE fd \in ClientFds \ DOMAIN s.clients :
                 \A x \in ClientFds \ DOMAIN s.clients : fd <= x

\* One accepted stream: registered for EPOLLIN and put in the table
accepted(s, listener_fd, fd) ==
    [s EXCEPT !.clients = With(s.clients, fd, Client_new(listener_fd)),
              !.idle = With(s.idle, fd, 0),
              !.ops = With(s.ops, fd, {}),
              !.served = With(s.served, fd, 0),
              !.answered = With(s.answered, fd, None),
              !.sock = With(s.sock, fd, Socket_new),
              !.interest = With(s.interest, fd, "IN")]

\* Server::accept_connection: accept until WouldBlock
RECURSIVE accept_all(_, _, _)
accept_all(s, listener_fd, n) ==
    IF n = 0 THEN s
    ELSE accept_all(accepted(s, listener_fd, FreeFd(s)), listener_fd, n - 1)

AcceptConnection ==
    /\ ServerMode
    /\ batch # <<>>
    /\ is_listener(Event.fd)
    /\ \E s \in {accept_all(State, Event.fd, pending[Event.fd])} :
         Becomes([s EXCEPT !.io = NoIo])
    /\ pending' = [pending EXCEPT ![Event.fd] = 0]
    /\ batch' = Tail(batch)
    /\ UNCHANGED <<mode, pvars, rvars, hvars, naccepts, nrequests>>

\* run's close_client on EPOLLERR | EPOLLHUP, after the handler
after_flags(s, ev) ==
    IF ev.flags \cap {"ERR", "HUP"} # {} THEN close_client(s, ev.fd) ELSE s

\* A client event with EPOLLIN
HandleRead ==
    /\ ServerMode
    /\ batch # <<>>
    /\ ~is_listener(Event.fd)
    /\ Event.fd \in DOMAIN clients
    /\ "IN" \in Event.flags
    /\ \E env \in Envs : \E s \in {after_flags(handle_read(State, Event.fd, env), Event)} :
         Becomes(s)
    /\ batch' = Tail(batch)
    /\ UNCHANGED <<mode, pvars, rvars, hvars, pending, naccepts, nrequests>>

\* What the socket write may return for a response with rem bytes left: all
\* or a part of them taken, or WouldBlock; once the peer has reset the
\* connection the socket takes nothing more (an error, or a write of zero)
WriteResults(fd, rem) ==
    IF sock[fd].peer = "reset" THEN {[kind |-> k, n |-> 0] : k \in {"error", "zero"}}
    ELSE {[kind |-> "ok", n |-> n]
            : n \in IF mode = "timed" THEN {rem} ELSE {rem, Min(rem, MaxWrite)}}
         \cup {[kind |-> "block", n |-> 0]}

\* A client event with EPOLLOUT and without EPOLLIN
HandleWrite ==
    /\ ServerMode
    /\ batch # <<>>
    /\ ~is_listener(Event.fd)
    /\ Event.fd \in DOMAIN clients
    /\ "IN" \notin Event.flags
    /\ "OUT" \in Event.flags
    /\ \E w \in WriteResults(Event.fd,
                             Len(clients[Event.fd].response) - clients[Event.fd].written) :
         \E s \in {after_flags(handle_write(State, Event.fd, w), Event)} : Becomes(s)
    /\ batch' = Tail(batch)
    /\ UNCHANGED <<mode, pvars, rvars, hvars, pending, naccepts, nrequests>>

\* An event whose descriptor is neither a listener nor in the table
StaleEvent ==
    /\ ServerMode
    /\ batch # <<>>
    /\ ~is_listener(Event.fd)
    /\ Event.fd \notin DOMAIN clients
    /\ batch' = Tail(batch)
    /\ io' = NoIo
    /\ UNCHANGED <<mode, pvars, rvars, hvars,
                   clients, idle, ops, served, answered, interest, sock, fs,
                   sessions, pending, naccepts, nrequests>>

Next ==
    \/ Connect
    \/ PeerRequest
    \/ PeerSegment
    \/ PeerClose
    \/ Wait
    \/ AcceptConnection
    \/ HandleRead
    \/ HandleWrite

\* Under the clock the sweep can close a connection whose event is in the
\* batch.
NextTimed ==
    \/ Connect
    \/ PeerRequest
    \/ PeerSegment
    \/ PeerClose
    \/ Wait
    \/ AcceptConnection
    \/ HandleRead
    \/ HandleWrite
    \/ StaleEvent

Spec == Init /\ [][Next]_vars

SpecTimed == InitTimed /\ [][NextTimed]_vars

\* The loop of run never stops: epoll.wait returns the events that are
\* ready and every event of the batch is handled.  A socket with a response
\* to take does not refuse it for ever.
WaitReady == Wait /\ batch' # <<>>

WriteTaken == HandleWrite /\ io'.res = "ok"

\* The step of HandleRead, told by its guard and by the event it takes off
\* the batch
ReadHandled ==
    /\ ServerMode
    /\ batch # <<>>
    /\ ~is_listener(Event.fd)
    /\ Event.fd \in DOMAIN clients
    /\ "IN" \in Event.flags
    /\ batch' = Tail(batch)

Fairness ==
    /\ WF_vars(WaitReady)
    /\ WF_vars(AcceptConnection)
    /\ WF_batch(ReadHandled)
    /\ WF_vars(HandleWrite)
    /\ SF_vars(WriteTaken)

SpecLive == InitLive /\ [][Next]_vars /\ Fairness

(***************************************************************************)
(* What the properties read off a connection                               *)
(***************************************************************************)
\* A connection whose complete request was dispatched and is being answered
Dispatched(fd) == clients[fd].state = "Writing" /\ clients[fd].request.complete

ConfigOf(fd) == Servers[clients[fd].server_config]

\* The route of the request of fd: its index in the routes of the server
RouteOf(fd) == find_route(clients[fd].request.uri, ConfigOf(fd).routes)

OverLimit(fd) == Len(clients[fd].request.body) > ConfigOf(fd).client_max_body_size

MethodAllowed(fd, rt) ==
    \E i \in 1..Len(rt.methods) : rt.methods[i] = clients[fd].request.method

\* The serialized response: its status, the values of a header, its body
StatusOf(wire) == wire[1].name

HeaderValues(wire, name) ==
    {wire[i].value : i \in {j \in 1..Len(wire) : wire[j].kind = "header"
                                                  /\ wire[j].name = name}}

BodyLen(wire) == Cardinality({i \in 1..Len(wire) : wire[i].kind = "body"})

\* In this step handle_write wrote the last byte of the response of fd
LastByteWritten(fd) ==
    /\ batch # <<>> /\ batch' = Tail(batch) /\ Event.fd = fd /\ fd \in DOMAIN clients
    /\ clients[fd].state = "Writing"
    /\ io' = Io(fd, "write", "ok", io'.n)
    /\ clients[fd].written + io'.n >= Len(clients[fd].response)

\* The statuses of the per-request logical errors
ErrorStatuses == {to_string(404), to_string(403), to_string(405), to_string(413), to_string(500)}

\* The socket call of the handler failed: EOF or an error other than
\* WouldBlock on the read, a write of zero bytes or an error on the write
IoFailed(r) ==
    \/ r.op = "read" /\ r.res \in {"eof", "error"}
    \/ r.op = "write" /\ r.res \in {"zero", "error"}

\* The value of the sessionid cookie of a request, or None
CookieSessionId(req) ==
    IF S_cookie \in DOMAIN req.headers
    THEN MapGet(parse_cookies(req.headers[S_cookie]), S_sessionid)
    ELSE None

\* Set-Cookie: sessionid=<id>; Path=/; HttpOnly; Max-Age=3600
SetCookieOf(id) ==
    S_sessionid \o <<"=">> \o id \o <<"; Path=/; HttpOnly", "; Max-Age=", "3", "6", "0", "0">>

\* In this step the loop handled the event of client fd
Handled(fd) == batch # <<>> /\ batch' = Tail(batch) /\ Event.fd = fd /\ fd \in DOMAIN clients

\* The operations of the handlers: everything but the read of a configured
\* error page by error_page
HandlerOps ==
    {"metadata", "read_file", "read_dir", "remove_file", "create_dir", "write_file",
     "spawn_cgi"}

(***************************************************************************)
(* The properties                                                          *)
(***************************************************************************)
\* C1: feeding a valid request to parse in pieces, one piece per call, at any
\* set of boundaries, yields the same request (method, uri, version, headers,
\* body, complete) as feeding all its bytes in a single call, and that
\* request is complete.
ParserCompleteness ==
    (mode = "parse" /\ fed = Len(input)) =>
        /\ perr = ""
        /\ request = ParseWhole(input).r
        /\ request.complete

\* A chunked request whose body holds a CRLF, delivered in several pieces.
ParserCompletenessWitness ==
    /\ mode = "parse"
    /\ fed = Len(input)
    /\ calls = 2
    /\ parser.is_chunked
    /\ request.complete
    /\ request.body = CRLF

\* C2: every response handed to send_response is serialized with a
\* Content-Length header whose value is the number of body bytes that follow
\* the blank line.
ResponseFraming ==
    \A fd \in DOMAIN clients :
        clients[fd].state = "Writing" =>
            HeaderValues(clients[fd].response, S_Content_Length)
                = {to_string(BodyLen(clients[fd].response))}

RoutingLongestPrefix ==
    (mode = "route" /\ rresult.done /\ PrefixRoutes(ruri, rroutes) # {}) =>
        rresult.route = Some(LongestPrefixRoute(ruri, rroutes))

\* C5: every complete request whose body is longer than client_max_body_size
\* is answered 413, whatever its method and URI and whether or not a route
\* matches, and no handler operation is performed for it: no file is read,
\* written or deleted, no directory is created or listed, no CGI is spawned.
BodySizeEnforcement ==
    \A fd \in DOMAIN clients :
        (Dispatched(fd) /\ OverLimit(fd)) =>
            /\ StatusOf(clients[fd].response) = to_string(413)
            /\ ops[fd] \cap HandlerOps = {}

\* A DELETE of an existing file with a body over the limit: the file is there.
BodySizeEnforcementWitness ==
    \E fd \in DOMAIN clients :
        /\ Dispatched(fd) /\ OverLimit(fd)
        /\ clients[fd].request.method = S_DELETE
        /\ clients[fd].request.uri = <<"/", "a", "/", "f">>
        /\ StatusOf(clients[fd].response) = to_string(413)
        /\ <<"w", "/", "f">> \in DOMAIN fs

\* C6: a connection that has had no I/O for more than 30 s is out of the
\* connection table no later than 1 s after the 30 s deadline, whatever
\* other events and handlers are being processed.
IdleTimeoutBound ==
    \A fd \in DOMAIN clients : idle[fd] <= CLIENT_TIMEOUT + WAIT_TIMEOUT

\* C7: after a parser error the server responds 400 and the connection is
\* closed; it never returns to the Reading state.
ParseErrorCloses ==
    [][\A fd \in DOMAIN clients :
          (/\ clients[fd].state = "Writing"
           /\ ~clients[fd].request.complete
           /\ StatusOf(clients[fd].response) = to_string(400)
           /\ fd \in DOMAIN clients')
              => clients'[fd].state # "Reading"]_vars

\* C8: when a complete request passes the body-size gate and no route
\* matches its URI, the response is 404 for every request method.
RoutingGate ==
    \A fd \in DOMAIN clients :
        (Dispatched(fd) /\ ~OverLimit(fd) /\ RouteOf(fd) = None) =>
            StatusOf(clients[fd].response) = to_string(404)

\* C9: when a route matches and the method of the request is not in
\* route.methods, the response is 405 and nothing else happens: no redirect
\* is issued and no handler operation is performed.
MethodGate ==
    \A fd \in DOMAIN clients :
        (/\ Dispatched(fd) /\ ~OverLimit(fd)
         /\ RouteOf(fd) # None
         /\ ~MethodAllowed(fd, ConfigOf(fd).routes[RouteOf(fd)[1]])) =>
            /\ StatusOf(clients[fd].response) = to_string(405)
            /\ HeaderValues(clients[fd].response, S_Location) = {}
            /\ ops[fd] \cap HandlerOps = {}

\* A DELETE on the redirecting route, which allows GET alone.
MethodGateWitness ==
    \E fd \in DOMAIN clients :
        /\ Dispatched(fd) /\ ~OverLimit(fd)
        /\ clients[fd].request.method = S_DELETE
        /\ RouteOf(fd) # None
        /\ ConfigOf(fd).routes[RouteOf(fd)[1]].redirect # None
        /\ StatusOf(clients[fd].response) = to_string(405)

\* C10: a request that passes the body-size and method gates on a route with
\* redirect = (code, location) is answered with status code, a Location
\* header of location and an empty body, whatever the filesystem holds, and
\* no handler operation is performed for it.
RedirectResponse ==
    \A fd \in DOMAIN clients :
        (/\ Dispatched(fd) /\ ~OverLimit(fd)
         /\ RouteOf(fd) # None
         /\ MethodAllowed(fd, ConfigOf(fd).routes[RouteOf(fd)[1]])
         /\ ConfigOf(fd).routes[RouteOf(fd)[1]].redirect # None) =>
            /\ StatusOf(clients[fd].response)
                  = to_string(ConfigOf(fd).routes[RouteOf(fd)[1]].redirect[1][1])
            /\ HeaderValues(clients[fd].response, S_Location)
                  = {ConfigOf(fd).routes[RouteOf(fd)[1]].redirect[1][2]}
            /\ BodyLen(clients[fd].response) = 0
            /\ ops[fd] = {}

\* A GET on the redirecting route after an earlier request changed the
\* filesystem.
RedirectResponseWitness ==
    \E fd \in DOMAIN clients :
        /\ Dispatched(fd)
        /\ clients[fd].request.uri = <<"/", "r">>
        /\ StatusOf(clients[fd].response) = to_string(301)
        /\ HeaderValues(clients[fd].response, S_Location) = {<<"/", "a">>}
        /\ fs # InitialFs

\* C11: from the moment send_response queues a response until its last byte
\* is written, the client is in the Writing state and registered for
\* EPOLLOUT alone, the part of the response not yet sent stays in the Client
\* across partial writes and WouldBlock results, and no byte is read from the
\* socket of the connection.
Backpressure ==
    [][\A fd \in DOMAIN clients :
          clients[fd].state = "Writing" =>
              /\ interest[fd] = "OUT"
              /\ clients[fd].written < Len(clients[fd].response)
              /\ Handled(fd) => io'.op = "write"
              /\ fd \in DOMAIN clients' =>
                    /\ (~Handled(fd) \/ io'.res = "block") => clients'[fd] = clients[fd]
                    /\ \/ /\ served'[fd] = served[fd] + 1
                          /\ clients'[fd].state = "Reading"
                       \/ /\ served'[fd] = served[fd]
                          /\ clients'[fd].state = "Writing"
                          /\ interest'[fd] = "OUT"
                          /\ clients'[fd].response = clients[fd].response
                          /\ clients'[fd].written >= clients[fd].written
                          /\ clients'[fd].written < Len(clients'[fd].response)]_vars

\* A response partly written while the next request of the peer waits unread
\* in the socket.
BackpressureWitness ==
    \E fd \in DOMAIN clients :
        /\ mode = "server"
        /\ clients[fd].state = "Writing"
        /\ clients[fd].written > 0
        /\ clients[fd].written < Len(clients[fd].response)
        /\ sock[fd].inq # <<>>
        /\ interest[fd] = "OUT"

\* C12: after a 404, 403, 405, 413 or 500 response has been written in full
\* the client is still in the connection table, in the Reading state with a
\* new parser and request and registered for EPOLLIN, and the next
\* well-formed request that arrives on the connection is parsed as on a new
\* connection and answered with the response process_request gives for it.
LogicalErrorKeepsOpen ==
    [][\A fd \in DOMAIN clients :
          /\ (LastByteWritten(fd) /\ StatusOf(clients[fd].response) \in ErrorStatuses) =>
                /\ fd \in DOMAIN clients'
                /\ clients'[fd] = [Client_new(1) EXCEPT
                                      !.server_config = clients[fd].server_config]
                /\ interest'[fd] = "IN"
                /\ answered'[fd] = Some(StatusOf(clients[fd].response))
          /\ (/\ Handled(fd)
              /\ answered[fd] # None /\ answered[fd][1] \in ErrorStatuses
              /\ clients[fd].state = "Reading"
              /\ ParseWhole(sock[fd].inq).err = ""
              /\ ParseWhole(sock[fd].inq).r.complete) =>
                /\ io' = Io(fd, "read", "ok", Len(sock[fd].inq))
                /\ fd \in DOMAIN clients'
                /\ clients'[fd].state = "Writing"
                /\ clients'[fd].request = ParseWhole(sock[fd].inq).r
                /\ \E env \in Envs :
                      \E out \in {process_request(clients'[fd].request, ConfigOf(fd), fs, env)} :
                          /\ fs' = out.fs
                          /\ clients'[fd].response =
                                to_bytes(session_cookie(clients'[fd].request, sessions,
                                                        out.response).response)]_vars

\* After a 500 (a failed CGI, directory listing or upload) was written in
\* full, a GET of a file on the same connection is answered 200.
LogicalErrorKeepsOpenWitness ==
    \E fd \in DOMAIN clients :
        /\ mode = "server"
        /\ answered[fd] = Some(to_string(500))
        /\ Dispatched(fd)
        /\ clients[fd].request.uri = <<"/", "a", "/", "f">>
        /\ StatusOf(clients[fd].response) = to_string(200)

\* C13: when the event handled for a client ends in EOF or a read error, in
\* a write of zero bytes or a write error, or carries EPOLLERR or EPOLLHUP,
\* the client is out of the connection table, its descriptor is out of the
\* epoll registrations and its stream is dropped by the end of the step, and
\* a further close_client of the descriptor changes nothing.
CloseOnIoFailure ==
    [][\A fd \in DOMAIN clients :
          (/\ Handled(fd)
           /\ \/ io'.fd = fd /\ IoFailed(io')
              \/ Event.flags \cap {"ERR", "HUP"} # {}) =>
              /\ fd \notin DOMAIN clients'
              /\ fd \notin DOMAIN interest'
              /\ fd \notin DOMAIN sock'
              /\ close_client(State', fd) = State']_vars

\* The peer reset the connection while its response was being written: the
\* write failed and the client is gone.
CloseOnIoFailureWitness ==
    /\ mode = "server"
    /\ io.op = "write" /\ io.res = "error"
    /\ io.fd \notin DOMAIN clients
    /\ io.fd \notin DOMAIN interest
    /\ nrequests > 0

\* C14: whenever send_response queues a response, an error response
\* included: if the request has a Cookie header with sessionid=<id> and <id>
\* is in the session table, the table is unchanged and the response has no
\* Set-Cookie header; otherwise exactly one session is added to the table and
\* the response carries Set-Cookie: sessionid=<id>; Path=/; HttpOnly;
\* Max-Age=3600 for the id of that session.
SessionCookie ==
    [][\A fd \in DOMAIN clients :
          (/\ Handled(fd)
           /\ clients[fd].state = "Reading"
           /\ fd \in DOMAIN clients'
           /\ clients'[fd].state = "Writing") =>
              IF /\ CookieSessionId(clients'[fd].request) # None
                 /\ CookieSessionId(clients'[fd].request)[1] \in sessions
              THEN /\ sessions' = sessions
                   /\ HeaderValues(clients'[fd].response, S_Set_Cookie) = {}
              ELSE /\ sessions \subseteq sessions'
                   /\ Cardinality(sessions' \ sessions) = 1
                   /\ HeaderValues(clients'[fd].response, S_Set_Cookie)
                         = {SetCookieOf(id) : id \in sessions' \ sessions}]_vars

\* A 404 for a request whose cookie names the session an earlier response
\* created: no Set-Cookie, and the table still holds that one session.
SessionCookieWitness ==
    \E fd \in DOMAIN clients :
        /\ mode = "server"
        /\ clients[fd].state = "Writing"
        /\ CookieSessionId(clients[fd].request) = Some(<<"0">>)
        /\ sessions = {<<"0">>}
        /\ StatusOf(clients[fd].response) = to_string(404)
        /\ HeaderValues(clients[fd].response, S_Set_Cookie) = {}

\* C15: in every configuration in which no two servers have the same
\* host:port, two servers on one port with different hosts included, the
\* server_config of an accepted client is the ServerConfig of the listener
\* that accepted the connection.
ListenerConfig ==
    (mode = "accept" /\ aclient # None) =>
        aservers[aclient[1].server_config] = aservers[alistener]

\* The payload of a chunked request of the parse harness: the body whose
\* chunks the request carries
ChunkedPayload(bytes) == CHOOSE b \in ChunkedBodies : bytes \in ChunkedOf(b)

\* C16: for a request with Transfer-Encoding: chunked whose body is a
\* sequence of chunks <hex size>[;extension] CRLF <data> CRLF ended by a
\* zero-size chunk, given to parse in any pieces, the request is complete
\* exactly when the CRLF of the zero-size chunk line has been fed, and its
\* body is then the concatenation of the chunk data in order, without the
\* extensions and with the CR and LF bytes of the data kept.
ChunkedDecoding ==
    (mode = "parse" /\ input \in ChunkedRequests) =>
        /\ perr = ""
        /\ request.complete <=> fed >= Len(input) - Len(CRLF)
        /\ request.complete => request.body = ChunkedPayload(input)
        /\ ~request.complete =>
              starts_with(ChunkedPayload(input), request.body)

\* A body of CR LF sent as two chunks of one byte, the first with a chunk
\* extension, fed in several pieces up to the zero-size chunk line.
ChunkedDecodingWitness ==
    /\ mode = "parse"
    /\ input \in ChunkedOf(CRLF)
    /\ find(input, <<";">>) # None
    /\ calls = 2
    /\ fed = Len(input) - Len(CRLF)
    /\ request.complete
    /\ request.body = CRLF

\* The blank line that ends the header block of a CGI output: the first
\* empty line, written CRLF CRLF or LF LF; where it starts and how long it
\* is.  An output without one has no header block: all of it is body.
CgiBlankLine(o) ==
    LET c == find(o, CRLF \o CRLF)
        l == find(o, <<LF, LF>>)
    IN  IF c # None /\ (l = None \/ c[1] < l[1]) THEN <<c[1], 4>>
        ELSE IF l # None THEN <<l[1], 2>>
        ELSE <<0, 0>>

CgiBlockOf(o) == Slice(o, 0, CgiBlankLine(o)[1])

CgiPayload(o) == Slice(o, CgiBlankLine(o)[1] + CgiBlankLine(o)[2], Len(o))

RECURSIVE LeadingDigits(_)
LeadingDigits(s) ==
    IF s # <<>> /\ DigitVal(s[1], 10) >= 0 THEN <<s[1]>> \o LeadingDigits(Tail(s)) ELSE <<>>

\* The leading integer of the Status header of a header block, 200 without one
CgiStatusValue(block) ==
    LET p == find(to_lowercase(block), S_status \o <<":">>)
    IN  IF p = None THEN 200
        ELSE DigitsVal(LeadingDigits(TrimStart(Slice(block, p[1] + Len(S_status) + 1,
                                                     Len(block)))), 10)

\* The body bytes of a serialized response
WireBodyBytes(w) ==
    LET k == CHOOSE i \in 1..Len(w) : w[i].kind = "blank"
    IN  [j \in 1..(Len(w) - k) |-> w[k + j].value[1]]

CgiStatusCode ==
    (mode = "cgi" /\ cgiwire # None) =>
        /\ cgiwire[1][1].kind = "status"
        /\ cgiwire[1][1].name = to_string(CgiStatusValue(CgiBlockOf(cgienv[1].cgi.stdout)))

CgiStatusNotCopied ==
    (mode = "cgi" /\ cgiwire # None) =>
        \A i \in 1..Len(cgiwire[1]) :
            cgiwire[1][i].kind = "header" => to_lowercase(cgiwire[1][i].name) # S_status

CgiBodyAfterBlankLine ==
    (mode = "cgi" /\ cgiwire # None) =>
        WireBodyBytes(cgiwire[1]) = CgiPayload(cgienv[1].cgi.stdout)

\* C17: for CGI output whose header block has a Status header the response
\* status is the leading integer of its value, and 200 without one; the
\* Status header is not among the response headers; the response body is
\* exactly the bytes that follow the blank line ending the header block.
CgiStatusMapping == CgiStatusCode /\ CgiStatusNotCopied /\ CgiBodyAfterBlankLine

\* The Content-Type headers of a serialized response (header names are
\* case-insensitive)
ContentTypeHeaders(w) ==
    {i \in 1..Len(w) : w[i].kind = "header" /\ to_lowercase(w[i].name) = S_content_type}

CgiSuppliesContentType(o) == find(CgiBlockOf(o), S_Content_Type \o <<":">>) # None

\* C18: the response to a CGI request has exactly one Content-Type header:
\* the value the CGI output supplied when it supplied one, text/html
\* otherwise.
CgiContentType ==
    (mode = "cgi" /\ cgiwire # None) =>
        /\ Cardinality(ContentTypeHeaders(cgiwire[1])) = 1
        /\ \A i \in ContentTypeHeaders(cgiwire[1]) :
              cgiwire[1][i].value =
                  IF CgiSuppliesContentType(cgienv[1].cgi.stdout)
                  THEN <<"a","p","p","l","i","c","a","t","i","o","n","/","j","s","o","n">>
                  ELSE <<"text/html">>

\* Without a Content-Type header in the CGI output the response has the one
\* default header.
CgiContentTypeDefault ==
    (mode = "cgi" /\ cgiwire # None /\ ~CgiSuppliesContentType(cgienv[1].cgi.stdout)) =>
        /\ Cardinality(ContentTypeHeaders(cgiwire[1])) = 1
        /\ \A i \in ContentTypeHeaders(cgiwire[1]) :
              cgiwire[1][i].value = <<"text/html">>

\* C19: when the CGI child cannot be spawned, does not take the body on its
\* stdin or exits with a non-zero status, the request is answered with the
\* 500 error page of the server (the configured page when there is one),
\* nothing the child wrote to stdout or stderr is in the response, and the
\* client stays in the connection table: Writing until the last byte of the
\* 500 is written, then Reading and registered for EPOLLIN.
CgiFailure ==
    [][\A fd \in DOMAIN clients :
          /\ (/\ Handled(fd)
              /\ clients[fd].state = "Reading"
              /\ fd \in DOMAIN clients'
              /\ "cgi_failed" \in ops'[fd]) =>
                /\ clients'[fd].state = "Writing"
                /\ interest'[fd] = "OUT"
                /\ clients'[fd].response =
                      to_bytes(session_cookie(clients'[fd].request, sessions,
                                              error_page(500, custom_page(ConfigOf(fd), 500),
                                                         fs)).response)
                /\ StatusOf(clients'[fd].response) = to_string(500)
                /\ find(WireBodyBytes(clients'[fd].response), S_out) = None
                /\ find(WireBodyBytes(clients'[fd].response), S_err) = None
          /\ (Handled(fd) /\ "cgi_failed" \in ops[fd]) =>
                \/ IoFailed(io')
                \/ /\ fd \in DOMAIN clients'
                   /\ LastByteWritten(fd) =>
                         /\ clients'[fd].state = "Reading"
                         /\ interest'[fd] = "IN"
                         /\ answered'[fd] = Some(to_string(500))]_vars

\* The 500 for a POST with a body to the script is being written, after an
\* earlier response on the same connection.
CgiFailureWitness ==
    \E fd \in DOMAIN clients :
        /\ mode = "server"
        /\ "cgi_failed" \in ops[fd]
        /\ clients[fd].state = "Writing"
        /\ clients[fd].request.method = S_POST
        /\ clients[fd].request.body # <<>>
        /\ clients[fd].written > 0
        /\ StatusOf(clients[fd].response) = to_string(500)

\* C20: when the read of handle_read or the write of handle_write returns
\* WouldBlock, the handler leaves the Client record as it was: state, written
\* offset, parser, request, and last_activity, so the time the connection has
\* been idle is what it was before the event.
WouldBlockFrame ==
    [][\A fd \in DOMAIN clients :
          (Handled(fd) /\ io' = Io(fd, io'.op, "block", 0)) =>
              /\ fd \in DOMAIN clients'
              /\ clients'[fd] = clients[fd]
              /\ idle'[fd] = idle[fd]]_vars

\* The part of C20 that holds: state, written offset, parser, request and
\* response are unchanged by a WouldBlock.
WouldBlockKeepsRecord ==
    [][\A fd \in DOMAIN clients :
          (Handled(fd) /\ io' = Io(fd, io'.op, "block", 0)) =>
              /\ fd \in DOMAIN clients'
              /\ clients'[fd] = clients[fd]]_vars

\* The request of the menu that the input is, and where its request line
\* and its header section end in the stream
MenuOf(bytes) == CHOOSE m \in RequestMenu : WireOf(m) = bytes

LineEnd(m) == Len(m.line.bytes) + Len(CRLF)

HeadersEnd(m) == LineEnd(m) + Len(JoinLines(m.block.lines, CRLF)) + Len(CRLF)

FromMenu == mode = "parse" /\ \E m \in RequestMenu : WireOf(m) = input

\* C21: in the Headers state a non-empty header line without a colon makes
\* parse fail; the line is not skipped.
MalformedHeaderRejected ==
    (/\ FromMenu
     /\ Len(MenuOf(input).line.tokens) = 3
     /\ ~MenuOf(input).block.colons
     /\ fed >= HeadersEnd(MenuOf(input))) =>
        perr # ""

\* The first n bytes of a sequence, all of it when it is shorter
FirstBytes(b, n) == SubSeq(b, 1, Min(n, Len(b)))

ChunkedTail == Chunk(<<"a">>, FALSE) \o LastChunk

\* The body mode after the blank line for a header block that announces
\* chunked, fixed with n, or no body
BodyModeOf(m) ==
    CASE m.block.body = "chunked" ->
            /\ parser.is_chunked
            /\ parser.state \in {"Body", "Done"}
            /\ request.complete <=> (m.tail = ChunkedTail /\ fed >= Len(input) - Len(CRLF))
            /\ request.complete => request.body = <<"a">>
      [] m.block.body = "fixed" ->
            /\ ~parser.is_chunked
            /\ parser.content_length = Some(m.block.n)
            /\ parser.state \in {"Body", "Done"}
            /\ request.complete => request.body = FirstBytes(m.tail, m.block.n)
      [] m.block.body = "none" ->
            /\ ~parser.is_chunked
            /\ parser.content_length = None
            /\ parser.state = "Done"
            /\ request.complete
            /\ request.body = <<>>
      [] OTHER -> TRUE

\* C22: at the end of the headers a transfer-encoding that contains chunked
\* in any letter case selects the chunked decoding, also when there is a
\* content-length; otherwise a content-length selects a fixed-length body of
\* its decimal value; with neither header the request is complete at the
\* blank line with an empty body, whatever the method.
BodyModeSelection ==
    (/\ FromMenu
     /\ Len(MenuOf(input).line.tokens) = 3
     /\ fed >= HeadersEnd(MenuOf(input))) =>
        /\ perr = ""
        /\ BodyModeOf(MenuOf(input))

\* A request with Content-Length: 1 and Transfer-Encoding: CHUNKED, fed in
\* pieces, is complete with the chunk's data as its body.
BodyModeSelectionWitness ==
    /\ FromMenu
    /\ MenuOf(input).block.body = "chunked"
    /\ Len(MenuOf(input).block.lines) = 2
    /\ MapGet(request.headers, S_content_length) = Some(<<"1">>)
    /\ MapGet(request.headers, S_transfer_encoding) = Some(<<"C","H","U","N","K","E","D">>)
    /\ calls = 2
    /\ request.complete
    /\ request.body = <<"a">>

\* C23: with Content-Length n the request is not complete while fewer than n
\* bytes have been received after the header section; once n are there the
\* body is exactly the first n of them and the request is complete (for n = 0
\* as soon as the headers end); later bytes are not part of the body.
FixedLengthBody ==
    (/\ FromMenu
     /\ Len(MenuOf(input).line.tokens) = 3
     /\ MenuOf(input).block.body = "fixed") =>
        /\ perr = ""
        /\ request.complete <=> fed >= HeadersEnd(MenuOf(input)) + MenuOf(input).block.n
        /\ request.complete =>
              /\ Len(request.body) = MenuOf(input).block.n
              /\ request.body = SubSeq(MenuOf(input).tail, 1, MenuOf(input).block.n)
        /\ ~request.complete => request.body = <<>>

\* Content-Length: 1 followed by the bytes a and b, fed in pieces to the end:
\* the body is a.
FixedLengthBodyWitness ==
    /\ FromMenu
    /\ MenuOf(input).block.body = "fixed"
    /\ MenuOf(input).block.n = 1
    /\ MenuOf(input).tail = <<"a", "b">>
    /\ fed = Len(input)
    /\ calls = 2
    /\ request.complete
    /\ request.body = <<"a">>

\* C24: once the first CRLF has been received, a request line of exactly
\* three whitespace-separated tokens has set the method (uppercased), the
\* target and the version (as given) and the parser has left the RequestLine
\* state; with any other number of tokens, none included, parse has failed
\* and the request is not complete.  Before the first CRLF nothing is
\* decided.
RequestLineRule ==
    FromMenu =>
        /\ fed < LineEnd(MenuOf(input)) =>
              /\ perr = ""
              /\ parser.state = "RequestLine"
              /\ request = HttpRequest_new
        /\ (fed >= LineEnd(MenuOf(input)) /\ Len(MenuOf(input).line.tokens) = 3) =>
              /\ perr = ""
              /\ parser.state # "RequestLine"
              /\ request.method = MenuOf(input).line.method
              /\ request.uri = MenuOf(input).line.tokens[2]
              /\ request.version = MenuOf(input).line.tokens[3]
        /\ (fed >= LineEnd(MenuOf(input)) /\ Len(MenuOf(input).line.tokens) # 3) =>
              /\ perr # ""
              /\ parser.state = "RequestLine"
              /\ ~request.complete

\* The line post /u HTTP/1.0 with two spaces after the method has been fed:
\* the method is POST.
RequestLineRuleWitness ==
    /\ FromMenu
    /\ Len(MenuOf(input).line.tokens) = 3
    /\ MenuOf(input).line.tokens[1] = <<"p", "o", "s", "t">>
    /\ fed >= LineEnd(MenuOf(input))
    /\ parser.state = "Headers"
    /\ request.method = S_POST
    /\ request.uri = <<"/", "u">>

\* The line GET / HTTP/1.1 x of four tokens has been fed and parse failed.
RequestLineRejected ==
    /\ FromMenu
    /\ Len(MenuOf(input).line.tokens) = 4
    /\ fed >= LineEnd(MenuOf(input))
    /\ perr # ""

\* C25: while a response is being written the offset never decreases and
\* stays below the length of the response, the response is not changed, and
\* what the socket has taken is the response up to the offset; the client
\* leaves the Writing state in the step in which the offset reaches the
\* length, and then the socket has taken exactly the response, each byte
\* once and in order.  A WouldBlock moves nothing.
PartialWrites ==
    [][\A fd \in DOMAIN clients :
          clients[fd].state = "Writing" =>
              /\ clients[fd].written >= 0
              /\ clients[fd].written < Len(clients[fd].response)
              /\ sock[fd].outq = SubSeq(clients[fd].response, 1, clients[fd].written)
              /\ (Handled(fd) /\ fd \in DOMAIN clients') =>
                    /\ io' = Io(fd, "write", io'.res, io'.n)
                    /\ io'.res \in {"ok", "block"}
                    /\ io'.res = "block" => io'.n = 0
                    /\ clients'[fd].state # "Writing" <=>
                          clients[fd].written + io'.n >= Len(clients[fd].response)
                    /\ clients'[fd].state = "Writing" =>
                          /\ clients'[fd].response = clients[fd].response
                          /\ clients'[fd].written = clients[fd].written + io'.n
                          /\ sock'[fd].outq =
                                SubSeq(clients[fd].response, 1, clients'[fd].written)
                    /\ clients'[fd].state # "Writing" =>
                          sock[fd].outq
                              \o SubSeq(clients[fd].response, clients[fd].written + 1,
                                        clients[fd].written + io'.n)
                            = clients[fd].response
              /\ (~Handled(fd) /\ fd \in DOMAIN clients') =>
                    /\ clients'[fd] = clients[fd]
                    /\ sock'[fd].outq = sock[fd].outq]_vars

\* A response of which a part has been taken by the socket and a part is
\* still to be written, after a write that returned WouldBlock.
PartialWritesWitness ==
    \E fd \in DOMAIN clients :
        /\ mode = "server"
        /\ clients[fd].state = "Writing"
        /\ clients[fd].written > 0
        /\ sock[fd].outq = SubSeq(clients[fd].response, 1, clients[fd].written)
        /\ io = Io(fd, "write", "block", 0)

\* The descriptors of the clients of the server
LiveFds == (Len(Servers) + 1)..(Len(Servers) + MaxClients)

\* fd is reading and the bytes waiting in its socket complete a well-formed
\* request
RequestDelivered(fd) ==
    /\ fd \in DOMAIN clients
    /\ clients[fd].state = "Reading"
    /\ parse(clients[fd].parser, sock[fd].inq, clients[fd].request).err = ""
    /\ parse(clients[fd].parser, sock[fd].inq, clients[fd].request).r.complete

\* The response of fd is written: fd is reading again, registered for
\* EPOLLIN, with one more response served
Answered(fd) ==
    /\ fd \in DOMAIN clients
    /\ clients[fd].state = "Reading"
    /\ interest[fd] = "IN"
    /\ answered[fd] # None

Dispatching == mode = "dispatch" /\ dout # None

\* The path the request resolves to
DispatchPath == resolve_path(UriPath(dcase[1].req.uri), dcase[1].route)

\* A GET that resolves to a directory
DirectoryGet ==
    /\ Dispatching
    /\ dcase[1].req.method = S_GET
    /\ DispatchPath \in DOMAIN dcase[1].disk
    /\ dcase[1].disk[DispatchPath].kind = "dir"

\* The places of the route's index names that exist in the directory
ExistingIndexes ==
    {i \in 1..Len(dcase[1].route.index) :
        (DispatchPath \o <<"/">> \o dcase[1].route.index[i]) \in DOMAIN dcase[1].disk}

FirstExistingIndex ==
    DispatchPath \o <<"/">>
        \o dcase[1].route.index[CHOOSE i \in ExistingIndexes : \A j \in ExistingIndexes : i <= j]

\* The links of a listing, in the order of the body: the name each displays,
\* without the slash that marks a directory
LinkStarts(body) == {k \in 1..Len(body) : body[k] = "<a href="}

LinkDisplay(body, k) ==
    LET e == CHOOSE m \in (k + 1)..Len(body) :
                 body[m] = ">" /\ \A n \in (k + 1)..(m - 1) : body[n] # ">"
        f == CHOOSE m \in (e + 1)..Len(body) :
                 body[m] = "</a>" /\ \A n \in (e + 1)..(m - 1) : body[n] # "</a>"
        shown == SubSeq(body, e + 1, f - 1)
    IN  IF shown # <<>> /\ shown[Len(shown)] = "/" THEN SubSeq(shown, 1, Len(shown) - 1)
        ELSE shown

ListingNames(body) ==
    [n \in 1..Cardinality(LinkStarts(body)) |->
        LinkDisplay(body, CHOOSE k \in LinkStarts(body) :
                              Cardinality({j \in LinkStarts(body) : j < k}) = n - 1)]

\* The names of the entries of the directory, read off the disk
EntryNames(disk, dir) ==
    {SubSeq(p, Len(dir) + 2, Len(p)) :
        p \in {q \in DOMAIN disk : /\ Len(q) > Len(dir) + 1
                                 /\ SubSeq(q, 1, Len(dir) + 1) = dir \o <<"/">>
                                 /\ \A n \in (Len(dir) + 2)..Len(q) : q[n] # "/"}}

\* A 200 HTML listing of the directory: every entry once, ascending, and the
\* parent link unless the URI path is "/"
IsListing(response) ==
    LET names == ListingNames(response.body)
    IN  /\ response.status_code = 200
        /\ MapGet(response.headers, S_Content_Type) = Some(<<"text/html">>)
        /\ {names[n] : n \in 1..Len(names)} = EntryNames(dcase[1].disk, DispatchPath)
        /\ Len(names) = Cardinality(EntryNames(dcase[1].disk, DispatchPath))
        /\ \A n \in 1..(Len(names) - 1) : StrLess(names[n], names[n + 1])
        /\ (\E k \in 1..Len(response.body) : response.body[k] = "<a href=../>../</a>")
               <=> UriPath(dcase[1].req.uri) # <<"/">>

\* The answer to a GET on a directory: the first existing index file, or
\* the listing when read_dir succeeds, or 403; and no CGI
DirectoryAnswer ==
    /\ IF ExistingIndexes # {}
       THEN /\ dout[1].response.status_code = 200
            /\ dout[1].response.body = dcase[1].disk[FirstExistingIndex].content
       ELSE IF dcase[1].route.autoindex
       THEN dcase[1].env.io_ok => IsListing(dout[1].response)
       ELSE dout[1].response.status_code = 403
    /\ "spawn_cgi" \notin dout[1].fx

\* C27: a GET on a directory is answered with the first index file of the
\* route that exists, else with the sorted 200 listing (with the parent link
\* unless the URI path is "/") when autoindex is on, else with 403, and the
\* directory is never given to the CGI handler.
DirectoryIndex == DirectoryGet => DirectoryAnswer

\* The same where the first index name that exists is a regular file
DirectoryIndexFile ==
    (DirectoryGet /\ (ExistingIndexes # {} => dcase[1].disk[FirstExistingIndex].kind = "file"))
        => DirectoryAnswer

DirectoryIndexFileWitness ==
    /\ DirectoryGet
    /\ Len(dcase[1].route.index) = 2
    /\ ExistingIndexes = {2}
    /\ dout[1].response.status_code = 200

DirectoryListingWitness ==
    /\ DirectoryGet
    /\ ExistingIndexes = {}
    /\ dcase[1].route.autoindex
    /\ dcase[1].env.io_ok
    /\ ListingNames(dout[1].response.body) = <<<<"a">>, <<"x", ".", "c">>>>
    /\ dcase[1].disk[P_x].kind = "dir"
    /\ dcase[1].route.cgi_extension # None

\* A directory whose name ends with the CGI extension is listed.
DirectoryNotCgiWitness ==
    /\ DirectoryGet
    /\ DispatchPath = P_x
    /\ dcase[1].route.cgi_extension # None
    /\ dcase[1].route.autoindex
    /\ dout[1].response.status_code = 200
    /\ ListingNames(dout[1].response.body) = <<>>
    /\ \E k \in 1..Len(dout[1].response.body) : dout[1].response.body[k] = "<a href=../>../</a>"


(***************************************************************************)
(* POST                                                                    *)
(***************************************************************************)
\* A POST that reaches the dispatch: the harness route allows POST, has no
\* redirect and matches every URI, and no body is over the limit
PostDispatched ==
    /\ Dispatching
    /\ dcase[1].req.method = S_POST
    /\ Len(dcase[1].req.body) <= ServerConfig_1.client_max_body_size

\* The Content-Type of the request has multipart/form-data in it
IsMultipart ==
    /\ S_content_type \in DOMAIN dcase[1].req.headers
    /\ \E k \in 1..(Len(dcase[1].req.headers[S_content_type]) - Len(S_multipart) + 1) :
          SubSeq(dcase[1].req.headers[S_content_type], k, k + Len(S_multipart) - 1)
              = S_multipart

\* The URI path ends with the extension of the route
IsCgiUri ==
    /\ dcase[1].route.cgi_extension # None
    /\ \E u \in {UriPath(dcase[1].req.uri)}, e \in {dcase[1].route.cgi_extension[1]} :
          /\ Len(u) >= Len(e)
          /\ SubSeq(u, Len(u) - Len(e) + 1, Len(u)) = e

\* The files the dispatch has written
FilesWritten ==
    {p \in DOMAIN dout[1].fs :
        p \notin DOMAIN dcase[1].disk /\ dout[1].fs[p].kind = "file"}

\* C28: a POST with multipart/form-data in its Content-Type goes to the
\* upload handler whatever its URI, any other POST whose URI path ends with
\* the CGI extension goes to CGI, and every other POST gets the 200
\* placeholder; an upload that writes its file answers 201, one whose write
\* fails 500.
PostPrecedence ==
    PostDispatched =>
        IF IsMultipart
        THEN /\ "create_dir" \in dout[1].fx
             /\ "spawn_cgi" \notin dout[1].fx
             /\ "write_file" \in dout[1].fx =>
                   IF dcase[1].env.io_ok
                   THEN /\ dout[1].response.status_code = 201
                        /\ \E p \in FilesWritten : dout[1].fs[p].content = dcase[1].req.body
                   ELSE /\ dout[1].response.status_code = 500
                        /\ FilesWritten = {}
             /\ FilesWritten # {} => dout[1].response.status_code = 201
        ELSE IF IsCgiUri
        THEN /\ "spawn_cgi" \in dout[1].fx
             /\ "create_dir" \notin dout[1].fx
             /\ FilesWritten = {}
        ELSE /\ dout[1].fx = {}
             /\ dout[1].response.status_code = 200
             /\ dout[1].response.body = <<"POST request received">>
             /\ dout[1].fs = dcase[1].disk

\* A multipart POST to a URI with the CGI extension was uploaded.
PostPrecedenceWitness ==
    /\ PostDispatched
    /\ IsMultipart
    /\ IsCgiUri
    /\ dcase[1].req.body = <<"b">>
    /\ dout[1].response.status_code = 201
    /\ FilesWritten # {}

\* The write of an upload failed.
PostUploadFailedWitness ==
    PostDispatched /\ IsMultipart /\ ~dcase[1].env.io_ok /\ dout[1].response.status_code = 500

\* A POST that is not multipart was given to CGI.
PostCgiWitness ==
    PostDispatched /\ ~IsMultipart /\ IsCgiUri /\ S_content_type \in DOMAIN dcase[1].req.headers


(***************************************************************************)
(* DELETE                                                                  *)
(***************************************************************************)
\* The request passes the gates of process_request under the server cfg
PassesGates(req, cfg) ==
    /\ Len(req.body) <= cfg.client_max_body_size
    /\ \E r \in {find_route(req.uri, cfg.routes)} :
          r # None =>
              /\ \E i \in 1..Len(cfg.routes[r[1]].methods) :
                    cfg.routes[r[1]].methods[i] = req.method
              /\ cfg.routes[r[1]].redirect = None

\* The file the request resolves to, when a route matches
ResolvedPath(req, cfg) ==
    LET r == find_route(req.uri, cfg.routes)
    IN  IF r = None THEN None
        ELSE Some(resolve_path(UriPath(req.uri), cfg.routes[r[1]]))

\* In this step the complete request of fd was dispatched
DispatchStep(fd) ==
    /\ Handled(fd)
    /\ clients[fd].state = "Reading"
    /\ fd \in DOMAIN clients'
    /\ clients'[fd].state = "Writing"
    /\ clients'[fd].request.complete

\* A file of the start that is gone
Removed(path) == path \in DOMAIN InitialFs /\ path \notin DOMAIN fs

\* C29: a DELETE that passes the gates is answered 204 exactly when it
\* removed the file it resolves to and 404 otherwise, leaving the disk as it
\* was; a file leaves the disk only by a DELETE answered 204; and while the
\* file is gone, a DELETE or a GET of its URI is answered 404.
DeleteSemantics ==
    [][/\ \A fd \in DOMAIN clients :
            (DispatchStep(fd) /\ PassesGates(clients'[fd].request, ConfigOf(fd))) =>
                LET req == clients'[fd].request
                    path == ResolvedPath(clients'[fd].request, ConfigOf(fd))
                    status == StatusOf(clients'[fd].response)
                IN  /\ req.method = S_DELETE =>
                          /\ status \in {to_string(204), to_string(404)}
                          /\ status = to_string(204) <=>
                                 /\ path # None
                                 /\ path[1] \in DOMAIN fs
                                 /\ fs' = [x \in DOMAIN fs \ {path[1]} |-> fs[x]]
                          /\ status = to_string(404) => fs' = fs
                    /\ (req.method \in {S_GET, S_DELETE} /\ path # None /\ Removed(path[1])) =>
                          status = to_string(404)
       /\ \A gone \in DOMAIN fs \ DOMAIN fs' :
            \E fd \in DOMAIN clients :
                /\ DispatchStep(fd)
                /\ clients'[fd].request.method = S_DELETE
                /\ StatusOf(clients'[fd].response) = to_string(204)
                /\ ResolvedPath(clients'[fd].request, ConfigOf(fd)) = Some(gone)
      ]_vars

\* The second DELETE of /a/f is being answered 404.
DeleteSemanticsWitness ==
    \E fd \in DOMAIN clients :
        /\ mode = "server"
        /\ Dispatched(fd)
        /\ clients[fd].request.method = S_DELETE
        /\ clients[fd].request.uri = <<"/", "a", "/", "f">>
        /\ Removed(<<"w", "/", "f">>)
        /\ StatusOf(clients[fd].response) = to_string(404)
        /\ "remove_file" \in ops[fd]

\* A GET of /a/f after its DELETE is being answered 404.
GetAfterDeleteWitness ==
    \E fd \in DOMAIN clients :
        /\ mode = "server"
        /\ Dispatched(fd)
        /\ clients[fd].request.method = S_GET
        /\ clients[fd].request.uri = <<"/", "a", "/", "f">>
        /\ Removed(<<"w", "/", "f">>)
        /\ StatusOf(clients[fd].response) = to_string(404)

\* A DELETE whose removal failed while the file exists is answered 404.
DeleteFailedWitness ==
    \E fd \in DOMAIN clients :
        /\ mode = "server"
        /\ Dispatched(fd)
        /\ clients[fd].request.method = S_DELETE
        /\ clients[fd].request.uri = <<"/", "a", "/", "f">>
        /\ ~Removed(<<"w", "/", "f">>)
        /\ StatusOf(clients[fd].response) = to_string(404)


(***************************************************************************)
(* The split of the CGI output                                             *)
(***************************************************************************)
\* The header lines of a block that have a colon: name and value
CgiHeaderPairs(block) ==
    LET ls == lines(block)
    IN  [n \in {k \in 1..Len(ls) : \E j \in 1..Len(ls[k]) : ls[k][j] = ":"} |->
            LET colon == CHOOSE j \in 1..Len(ls[n]) :
                             ls[n][j] = ":" /\ \A m \in 1..(j - 1) : ls[n][m] # ":"
            IN  [name |-> to_lowercase(trim(SubSeq(ls[n], 1, colon - 1))),
                 value |-> trim(SubSeq(ls[n], colon + 1, Len(ls[n])))]]

\* The map they make, a later line replacing an earlier one of the same name
CgiHeadersOf(block) ==
    LET pairs == CgiHeaderPairs(block)
    IN  [name \in {pairs[n].name : n \in DOMAIN pairs} |->
            pairs[CHOOSE n \in DOMAIN pairs :
                      /\ pairs[n].name = name
                      /\ \A m \in DOMAIN pairs : pairs[m].name = name => m <= n].value]

\* C30: parse_cgi_output splits the output at the first blank line in it,
\* CRLF CRLF or LF LF, whichever starts first: the headers are the lines
\* before it, split at their first colon, the name lowercased and the value
\* trimmed, and the body is every byte after it; an output without a blank
\* line is all body and has no headers.
CgiOutputSplit ==
    (mode = "cgi" /\ cgiwire # None) =>
        LET output == cgienv[1].cgi.stdout
            split == parse_cgi_output(cgienv[1].cgi.stdout)
        IN  /\ split.body = CgiPayload(output)
            /\ split.headers = CgiHeadersOf(CgiBlockOf(output))
            /\ WireBodyBytes(cgiwire[1]) = split.body
            /\ CgiBlankLine(output)[2] = 0 =>
                  /\ split.body = output
                  /\ split.headers = EmptyMap

\* The same for the outputs where no CRLF CRLF comes after the first LF LF
CgiOutputSplitOrdered ==
    (/\ mode = "cgi"
     /\ cgiwire # None
     /\ (find(cgienv[1].cgi.stdout, CRLF \o CRLF) # None
            => CgiBlankLine(cgienv[1].cgi.stdout)[2] = 4)) =>
        LET output == cgienv[1].cgi.stdout
            split == parse_cgi_output(cgienv[1].cgi.stdout)
        IN  /\ split.body = CgiPayload(output)
            /\ split.headers = CgiHeadersOf(CgiBlockOf(output))
            /\ WireBodyBytes(cgiwire[1]) = split.body

\* An output without a blank line was answered with all of it as the body.
CgiUnterminatedWitness ==
    /\ mode = "cgi"
    /\ cgiwire # None
    /\ CgiBlankLine(cgienv[1].cgi.stdout)[2] = 0
    /\ find(cgienv[1].cgi.stdout, <<":">>) # None
    /\ WireBodyBytes(cgiwire[1]) = cgienv[1].cgi.stdout


(***************************************************************************)
(* The reactor                                                             *)
(***************************************************************************)
LastCall == reactor[1].calls[Len(reactor[1].calls)]

ReactorCalled == mode = "reactor" /\ reactor # None /\ reactor[1].calls # <<>>

\* C31: on both backends, after modify(fd, interest, data) only the kinds
\* of readiness in interest are reported for fd, whatever calls came before,
\* and after delete(fd) nothing is registered for fd.
ReactorReportsInterest ==
    ReactorCalled =>
        /\ LastCall.op = "modify" =>
              /\ Epoll_reports(reactor[1].epoll, LastCall.fd) \subseteq LastCall.events
              /\ Kqueue_reports(reactor[1].kqueue, LastCall.fd) \subseteq LastCall.events
        /\ LastCall.op = "delete" =>
              /\ Epoll_reports(reactor[1].epoll, LastCall.fd) = {}
              /\ Kqueue_reports(reactor[1].kqueue, LastCall.fd) = {}

\* The same of the Linux backend alone
EpollReportsInterest ==
    ReactorCalled =>
        /\ LastCall.op = "modify" =>
              Epoll_reports(reactor[1].epoll, LastCall.fd) \subseteq LastCall.events
        /\ LastCall.op = "delete" => Epoll_reports(reactor[1].epoll, LastCall.fd) = {}

\* The calls of the server on a connection: add for READ, modify to WRITE,
\* modify back to READ
EpollWriteToReadWitness ==
    /\ ReactorCalled
    /\ reactor[1].calls = <<ReactorCall("add", 1, {"IN"}), ReactorCall("modify", 1, {"OUT"}),
                            ReactorCall("modify", 1, {"IN"})>>
    /\ Epoll_reports(reactor[1].epoll, 1) = {"IN"}


(***************************************************************************)
(* find_route and the empty route path                                     *)
(***************************************************************************)
\* C32: find_route returns None only when no route path is a prefix of the
\* query-stripped URI path; a route with the empty path is a prefix of every
\* URI path.
RouteFoundWhenPrefix ==
    (mode = "route" /\ rresult.done /\ rresult.route = None) =>
        \A i \in 1..Len(rroutes) :
            ~(/\ Len(rroutes[i].path) <= Len(UriPath(ruri))
              /\ SubSeq(UriPath(ruri), 1, Len(rroutes[i].path)) = rroutes[i].path)

\* The same where no route has the empty path
RouteFoundWhenNonEmptyPrefix ==
    (/\ mode = "route"
     /\ rresult.done
     /\ rresult.route = None
     /\ \A i \in 1..Len(rroutes) : rroutes[i].path # <<>>) =>
        \A i \in 1..Len(rroutes) :
            ~(/\ Len(rroutes[i].path) <= Len(UriPath(ruri))
              /\ SubSeq(UriPath(ruri), 1, Len(rroutes[i].path)) = rroutes[i].path)


(***************************************************************************)
(* The connection table and the epoll registrations                        *)
(***************************************************************************)
\* C33: the descriptors registered with epoll are the listeners, for
\* EPOLLIN, and the handles of the connection table, each for EPOLLIN
\* exactly while its client is Reading and for EPOLLOUT exactly while it is
\* Writing; a handle that close_client removed is not registered.
RegistrationInvariant ==
    ServerMode =>
        /\ DOMAIN interest = Listeners \cup DOMAIN clients
        /\ \A l \in Listeners : interest[l] = "IN"
        /\ \A fd \in DOMAIN clients :
              /\ clients[fd].state \in {"Reading", "Writing"}
              /\ interest[fd] = "IN" <=> clients[fd].state = "Reading"
              /\ interest[fd] = "OUT" <=> clients[fd].state = "Writing"

\* Between two iterations of the loop: a second response is queued on a
\* connection that went from READ to WRITE and back
RegistrationInvariantWitness ==
    \E fd \in DOMAIN clients :
        /\ mode = "server"
        /\ batch = <<>>
        /\ served[fd] = 1
        /\ clients[fd].state = "Writing"
        /\ interest[fd] = "OUT"

\* A connection was closed and its handle is free.
RegistrationClosedWitness ==
    /\ mode = "server"
    /\ io.res \in {"eof", "error"}
    /\ io.fd \notin DOMAIN clients
    /\ io.fd \notin DOMAIN interest


(***************************************************************************)
(* One response in flight                                                  *)
(***************************************************************************)
\* C34: while a client is Writing, no response is queued for it: from one
\* state to the next its response stays what it is and its offset does not
\* go back, until the offset reaches the length and the client is Reading
\* again; a response is queued only for a client that is Reading, so the
\* dispatcher runs at most once between two returns to Reading.
OneResponseInFlight ==
    [][\A fd \in DOMAIN clients \cap DOMAIN clients' :
          /\ (clients[fd].state = "Writing" /\ clients'[fd].state = "Writing") =>
                /\ clients'[fd].response = clients[fd].response
                /\ clients'[fd].written >= clients[fd].written
                /\ clients'[fd].written < Len(clients[fd].response)
                /\ clients'[fd].request = clients[fd].request
                /\ ops'[fd] = ops[fd]
          /\ (clients[fd].state = "Writing" /\ clients'[fd].state = "Reading") =>
                /\ io'.op = "write"
                /\ clients[fd].written + io'.n >= Len(clients[fd].response)
          /\ (clients'[fd].state = "Writing" /\ clients[fd].state # "Writing") =>
                /\ clients[fd].state = "Reading"
                /\ clients'[fd].written = 0
      ]_vars

\* A part of the response is written and the bytes of the next request are
\* already in the socket.
OneResponseInFlightWitness ==
    \E fd \in DOMAIN clients :
        /\ mode = "server"
        /\ clients[fd].state = "Writing"
        /\ clients[fd].written > 0
        /\ sock[fd].inq # <<>>
        /\ sock[fd].peer = "open"


(***************************************************************************)
(* One response per chunked request                                        *)
(***************************************************************************)
\* The responses queued so far on the connection fd
ResponsesOf(fd) == served[fd] + (IF clients[fd].state = "Writing" THEN 1 ELSE 0)

\* C35: when the peers have sent one request in all, in whatever segments,
\* no connection has queued more than one response; the chunked request of
\* the scripts, whose final CRLF is a segment of its own, is such a request.
OneResponsePerChunkedRequest ==
    nrequests = 1 => \A fd \in DOMAIN clients : ResponsesOf(fd) <= 1

\* The one request that is answered twice is the chunked one: the second
\* response is the 400 given to the CRLF that follows its last chunk.
SecondResponseIsStrayCrlf ==
    \A fd \in DOMAIN clients :
        (nrequests = 1 /\ ResponsesOf(fd) > 1) =>
            /\ ResponsesOf(fd) = 2
            /\ sock[fd].tosend = <<>>
            /\ IF clients[fd].state = "Writing"
               THEN /\ StatusOf(clients[fd].response) = to_string(400)
                    /\ clients[fd].parser.buffer = CRLF
               ELSE answered[fd] = Some(to_string(400))


(***************************************************************************)
(* Events of a closed connection                                           *)
(***************************************************************************)
\* The descriptors of the events of the batch that are still to be handled
Awaiting(b) == {b[i].fd : i \in DOMAIN b}

\* C36: within one batch, when a connection is accepted, no event of the
\* batch that is still to be handled carries its descriptor: such an event
\* was reported for a connection that the sweep has closed, and run would
\* hand it to handle_read, handle_write or close_client for the new one.
NoStaleEventApplied ==
    [][\A fd \in DOMAIN clients' \ DOMAIN clients : fd \notin Awaiting(batch')]_vars

\* An event reported for a connection that the sweep has closed has made
\* run read from the connection accepted after it, which has sent nothing.
StaleEventRead ==
    /\ mode = "timed"
    /\ io.op = "read" /\ io.res = "block"
    /\ io.fd \in DOMAIN clients
    /\ nrequests = 1 /\ served[io.fd] = 0 /\ clients[io.fd].state = "Reading"
    /\ sock[io.fd].inq = <<>>


(***************************************************************************)
(* The loop survives                                                       *)
(***************************************************************************)
LoopRan == mode = "loop" /\ runloop # None /\ runloop[1].iters > 0

\* C37: run returns only when epoll.wait failed with an error that is not
\* Interrupted: the failure of accept, of set_nonblocking or of epoll.add on
\* one incoming connection does not end the loop.
LoopSurvives ==
    (LoopRan /\ runloop[1].returned # None) =>
        /\ runloop[1].wait = "error"
        /\ runloop[1].returned = Some("epoll.wait")

\* The failure of a client's handler does not end the loop: it closes that
\* client, and run returns for the failure of epoll.wait or of a call of
\* accept_connection only.
HandlerFailureSurvives ==
    LoopRan =>
        /\ runloop[1].wait = "Interrupted" => runloop[1].returned = None
        /\ runloop[1].wait = "error" => runloop[1].returned = Some("epoll.wait")
        /\ (runloop[1].wait = "events"
              /\ \A i \in DOMAIN runloop[1].events :
                    /\ runloop[1].events[i].fd \in LoopListeners
                    => runloop[1].events[i].turns[Len(runloop[1].events[i].turns)]
                          \in {"ok", "WouldBlock"})
           => runloop[1].returned = None


(***************************************************************************)
(* The CGI exchange                                                        *)
(***************************************************************************)
\* C38: for every body and every child that writes a finite output, reads
\* its stdin to the end and exits, execute returns.
CgiExchangeTerminates == <>(Exchanging /\ pipes[1].pc = "returned")

\* Once the body is written the child's stdin is closed, and the child gets
\* past its reading only after it has read the whole body; when execute
\* returns it has collected the whole output.
StdinClosedAfterBody ==
    Exchanging =>
        /\ pipes[1].pc # "write_all" => (~pipes[1].stdin_open /\ pipes[1].body = 0)
        /\ pipes[1].stdin_open => pipes[1].pc = "write_all"
        /\ pipes[1].cpc \in {"after", "exited"} =>
              \E b \in 0..MaxPipeBody : pipes[1].took = b /\ pipes[1].body = 0 /\ pipes[1].stdin = 0
        /\ pipes[1].pc = "returned" =>
              pipes[1].got = pipes[1].child.before + pipes[1].child.after

\* The exchange ends whenever the body or the child's first output fits in
\* a pipe.
SmallExchangeTerminates ==
    (pipes[1].body + pipes[1].stdin + pipes[1].took <= PipeCap
        \/ pipes[1].child.before <= PipeCap)
        ~> (pipes[1].pc = "returned")


(***************************************************************************)
(* The script the interpreter is given                                     *)
(***************************************************************************)
Spawned == mode = "spawn" /\ cgispawn # None /\ cgispawn[1].command # None

\* The working directory of the child
ChildCwd == Designates(cgispawn[1].cwd, cgispawn[1].command[1].current_dir)

\* C39: the script path argument designates, from the working directory of
\* the child, the file that the resolved path designates for the server,
\* whether route.root is relative or absolute.
CgiScriptIdentity ==
    Spawned =>
        Designates(ChildCwd, cgispawn[1].command[1].arg)
            = Designates(cgispawn[1].cwd, SpawnPath)

\* With an absolute root the argument designates the resolved file, and the
\* child runs in the directory of the script.
CgiScriptIdentityAbsolute ==
    (Spawned /\ cgispawn[1].route.root # None
        /\ starts_with(cgispawn[1].route.root[1], <<"/">>)) =>
        /\ Designates(ChildCwd, cgispawn[1].command[1].arg)
              = Designates(cgispawn[1].cwd, SpawnPath)
        /\ Append(ChildCwd, <<"x", ".", "c">>) = Designates(cgispawn[1].cwd, SpawnPath)

====
